---- MODULE Spec2Model ----
(***************************************************************************)
(* Trello Assistant Bot: authorization gate, credential resolver and       *)
(* command dispatch, modelled from src/src/bot.js (TrelloAssistantBot and  *)
(* AuthManager), src/src/trello-service.js (TrelloService, TokenManager,   *)
(* ErrorHandler) and src/src/connection-manager.js (ConfigManager).        *)
(*                                                                         *)
(* Conventions.  A handler runs to completion in one step.  Reads and      *)
(* writes of the JSON files under data/ succeed; the chat transport and    *)
(* the Trello API may fail, an outcome chosen by the environment for each  *)
(* event.  Identities are integers in events and strings in the stores,    *)
(* as in the code (id.toString()).  Display names, titles and timestamps   *)
(* are left out of the records: no branch of the code reads them.          *)
(***************************************************************************)
EXTENDS Integers, Sequences, FiniteSets, Bags, TLC

(***************************************************************************)
(* Bounds of the model                                                     *)
(***************************************************************************)
MaxUser == 2          \* user ids 1..MaxUser take part
MaxRequests == 2      \* longest pendingRequests list explored

\* config.adminUserIds as handed to new AuthManager(...), mapped to strings
adminIds == <<"1">>

UserIds == 1..MaxUser
\* the group chats that take part (Telegram numbers them below zero)
GroupIds == {-1}

MaxEvents == 2        \* events the bot handles in one run

VARIABLES
  authorized,     \* AuthManager.authorized (in-memory view)
  authFile,       \* contents of data/authorized.json
  ret,            \* the last AuthManager call and what it returned
  tokens,         \* TokenManager.tokens (in-memory view)
  tokensFile,     \* contents of data/tokens.json (values encrypted)
  configFile,     \* contents of data/config.json
  statsFile,      \* contents of data/stats.json
  userSessions,   \* TrelloAssistantBot.userSessions
  trelloServices, \* keys of TrelloAssistantBot.trelloServices
  credOf,         \* the pair each chat's last successful workspace setup stored
  out,            \* what the handling of the last event did and answered
  ev,             \* the last event of a session flow: where it arrived, what it
                  \* carried, the session it found and what the calls made for that
                  \* session met outside
  nEvents,        \* events handled so far
  isConnected,          \* ConnectionManager.isConnected
  reconnectAttempts,    \* ConnectionManager.reconnectAttempts
  reconnectDelay,       \* ConnectionManager.reconnectDelay, in eighths of a millisecond
  healthCheckInterval,  \* ConnectionManager.healthCheckInterval is set
  retryCount,           \* TrelloAssistantBot.retryCount
  retryDelay,           \* TrelloAssistantBot.retryDelay, in eighths of a millisecond
  isPolling,            \* what bot.isPolling() answers
  pending,              \* the timers that are armed: setTimeout callbacks not yet run,
                        \* by what they call, and the setInterval of start()
  exited,               \* process.exit was called
  probes,               \* liveness probes that failed in a row
  last,                 \* what the last step of the connection layers did
  rawText,              \* the text handed to extractUrlsFromText
  extracted,            \* what extractUrlsFromText returned for it
  tasks                 \* the calls that are suspended at an await or have returned

authVars == <<authorized, authFile>>
connVars == <<isConnected, reconnectAttempts, reconnectDelay, healthCheckInterval,
             retryCount, retryDelay, isPolling, pending, exited, probes, last>>
textVars == <<rawText, extracted>>
botVars == <<tokens, tokensFile, configFile, statsFile, userSessions, trelloServices,
            credOf, out, ev, nEvents, connVars, textVars, tasks>>
vars == <<authorized, authFile, ret, tokens, tokensFile, configFile, statsFile,
          userSessions, trelloServices, credOf, out, ev, nEvents, connVars, textVars, tasks>>

(***************************************************************************)
(* The connection layers and the text structuring after construction       *)
(***************************************************************************)
\* delays are kept in eighths of a millisecond, so that 5000 * 1.5^k is a
\* whole number up to both ceilings
ms(x) == 8 * x

NoTimers == [reconnect |-> 0, retry |-> 0, final |-> 0, check |-> FALSE]

NoStep == [kind |-> "none", outcome |-> "none", error |-> [code |-> "none", statusCode |-> 0],
           attempted |-> FALSE, scheduled |-> "none", after |-> 0,
           status |-> [isConnected |-> FALSE, reconnectAttempts |-> 0]]

\* new ConnectionManager(bot), the retry fields of the bot's constructor and
\* polling started by autoStart
ConnBoot ==
  /\ isConnected = FALSE /\ reconnectAttempts = 0 /\ reconnectDelay = ms(5000)
  /\ healthCheckInterval = FALSE
  /\ retryCount = 0 /\ retryDelay = ms(5000)
  /\ isPolling = TRUE
  /\ pending = NoTimers /\ exited = FALSE
  /\ probes = 0 /\ last = NoStep

NoExtract == [cleanText |-> <<>>, urls |-> <<>>, listItems |-> <<>>, description |-> <<>>]

TextIdle == rawText = <<>> /\ extracted = NoExtract

\* no call is under way
NoTasks == tasks = <<>>

(***************************************************************************)
(* Array helpers (Array.prototype.includes / indexOf / splice / some)      *)
(***************************************************************************)
includes(s, x) == \E i \in 1..Len(s) : s[i] = x

\* indexOf, 0-based, -1 when absent
indexOf(s, x) ==
  IF includes(s, x) THEN (CHOOSE i \in 1..Len(s) : s[i] = x /\ \A j \in 1..(i-1) : s[j] # x) - 1
  ELSE -1

\* splice(index, 1), index 0-based
splice1(s, index) == [i \in 1..(Len(s) - 1) |-> IF i <= index THEN s[i] ELSE s[i + 1]]

NoDuplicates(s) == \A i, j \in 1..Len(s) : s[i] = s[j] => i = j

(***************************************************************************)
(* AuthManager                                                             *)
(***************************************************************************)
\* Identities reach the methods below as strings: the number-to-string step of
\* id.toString() is taken where an event's numeric id enters (ToString(...)),
\* and toString() of a string is that string.
isAdmin(userId) == includes(adminIds, userId)

RECURSIVE pushMissing(_, _, _)
pushMissing(users, admins, k) ==
  IF k > Len(admins) THEN users
  ELSE pushMissing(IF includes(users, admins[k]) THEN users ELSE Append(users, admins[k]),
                   admins, k + 1)

\* loadAuthorized: parse the file, then make sure the admins are in users
loadAuthorized(file) == [file EXCEPT !.users = pushMissing(@, adminIds, 1)]

\* constructor + init() when data/authorized.json does not exist yet
FreshAuth == [users |-> adminIds, groups |-> <<>>, pendingRequests |-> <<>>]

\* a file left by an earlier run that had no admin configured
OldAuth == [users |-> <<>>, groups |-> <<>>, pendingRequests |-> <<>>]

NullRequest == [userId |-> "", chatId |-> "", type |-> "", status |-> "null"]

isAuthorizedUser(file, userId) == includes(loadAuthorized(file).users, userId)

isAuthorizedGroup(file, groupId) == includes(loadAuthorized(file).groups, groupId)

IsGroup(msg) == msg.chat.type = "group" \/ msg.chat.type = "supergroup"

isAuthorizedEither(file, msg) ==
  LET userId == ToString(msg.from.id)
      chatId == ToString(msg.chat.id)
  IN IF isAdmin(userId) THEN TRUE
     ELSE isAuthorizedGroup(file, chatId) \/ isAuthorizedUser(file, userId)

isAuthorized(file, msg) ==
  LET userId == ToString(msg.from.id)
      chatId == ToString(msg.chat.id)
  IN IF isAdmin(userId) THEN TRUE
     ELSE IF IsGroup(msg) THEN isAuthorizedGroup(file, chatId)
     ELSE isAuthorizedUser(file, userId)

\* what a call leaves in memory once it has (re)loaded the file: the admin
\* shortcut of isAuthorized returns before any load
isAuthorizedMem(mem, file, msg) ==
  IF isAdmin(ToString(msg.from.id)) THEN mem ELSE loadAuthorized(file)

\* Each mutating method: [mem, file, val] after load / change / save
authorizeUserAlways(file, userId) ==
  LET a == loadAuthorized(file)
      a2 == [a EXCEPT !.users = Append(@, userId)]
  IN [mem |-> a2, file |-> a2, val |-> TRUE]

authorizeUser(file, userId) ==
  LET a == loadAuthorized(file)
      userIdStr == userId
  IN IF ~includes(a.users, userIdStr)
     THEN LET a2 == [a EXCEPT !.users = Append(@, userIdStr)]
          IN [mem |-> a2, file |-> a2, val |-> TRUE]
     ELSE [mem |-> a, file |-> file, val |-> FALSE]

unauthorizeUserNoAdminCheck(file, userId) ==
  LET a == loadAuthorized(file)
      index == indexOf(a.users, userId)
  IN IF index > -1
     THEN LET a2 == [a EXCEPT !.users = splice1(@, index)]
          IN [mem |-> a2, file |-> a2, val |-> TRUE]
     ELSE [mem |-> a, file |-> file, val |-> FALSE]

unauthorizeUser(file, userId) ==
  LET a == loadAuthorized(file)
      userIdStr == userId
      index == indexOf(a.users, userIdStr)
  IN IF isAdmin(userId) THEN [mem |-> a, file |-> file, val |-> FALSE]
     ELSE IF index > -1
     THEN LET a2 == [a EXCEPT !.users = splice1(@, index)]
          IN [mem |-> a2, file |-> a2, val |-> TRUE]
     ELSE [mem |-> a, file |-> file, val |-> FALSE]

authorizeGroup(file, groupId) ==
  LET a == loadAuthorized(file)
      groupIdStr == groupId
  IN IF ~includes(a.groups, groupIdStr)
     THEN LET a2 == [a EXCEPT !.groups = Append(@, groupIdStr)]
          IN [mem |-> a2, file |-> a2, val |-> TRUE]
     ELSE [mem |-> a, file |-> file, val |-> FALSE]

unauthorizeGroup(file, groupId) ==
  LET a == loadAuthorized(file)
      index == indexOf(a.groups, groupId)
  IN IF index > -1
     THEN LET a2 == [a EXCEPT !.groups = splice1(@, index)]
          IN [mem |-> a2, file |-> a2, val |-> TRUE]
     ELSE [mem |-> a, file |-> file, val |-> FALSE]

\* In range test of approveRequest / rejectRequest (requestIndex is 0-based)
validIndex(a, requestIndex) == requestIndex >= 0 /\ requestIndex < Len(a.pendingRequests)

addAccessRequestNoDedup(file, userId, chatId, type) ==
  LET a == loadAuthorized(file)
      request == [userId |-> userId, chatId |-> chatId,
                  type |-> type, status |-> "pending"]
      a2 == [a EXCEPT !.pendingRequests = Append(@, request)]
  IN [mem |-> a2, file |-> a2, val |-> request]

addAccessRequest(file, userId, chatId, type) ==
  LET a == loadAuthorized(file)
      request == [userId |-> userId, chatId |-> chatId,
                  type |-> type, status |-> "pending"]
      exists == \E i \in 1..Len(a.pendingRequests) :
                   /\ a.pendingRequests[i].userId = request.userId
                   /\ a.pendingRequests[i].chatId = request.chatId
  IN IF ~exists
     THEN LET a2 == [a EXCEPT !.pendingRequests = Append(@, request)]
          IN [mem |-> a2, file |-> a2, val |-> request]
     ELSE [mem |-> a, file |-> file, val |-> NullRequest]

getPendingRequests(file) ==
  SelectSeq(loadAuthorized(file).pendingRequests, LAMBDA req : req.status = "pending")

\* approveRequest takes `request` out of the object loaded first; the nested
\* authorizeGroup / authorizeUser loads the file again and replaces
\* this.authorized, so `request.status = 'approved'` is written to the object
\* of the first load while saveAuthorized() writes the object of the second.
approveRequestLive(file, requestIndex) ==
  LET a == loadAuthorized(file)
  IN IF validIndex(a, requestIndex)
     THEN LET request == a.pendingRequests[requestIndex + 1]
              inner == IF request.type = "group"
                       THEN authorizeGroup(file, request.chatId)
                       ELSE authorizeUser(file, request.userId)
              a2 == [inner.mem EXCEPT !.pendingRequests[requestIndex + 1].status = "approved"]
          IN [mem |-> a2, file |-> a2, val |-> a2.pendingRequests[requestIndex + 1]]
     ELSE [mem |-> a, file |-> file, val |-> NullRequest]

approveRequest(file, requestIndex) ==
  LET a == loadAuthorized(file)
  IN IF validIndex(a, requestIndex)
     THEN LET request == a.pendingRequests[requestIndex + 1]
              inner == IF request.type = "group"
                       THEN authorizeGroup(file, request.chatId)
                       ELSE authorizeUser(file, request.userId)
          IN [mem |-> inner.mem, file |-> inner.mem,
              val |-> [request EXCEPT !.status = "approved"]]
     ELSE [mem |-> a, file |-> file, val |-> NullRequest]

rejectRequest(file, requestIndex) ==
  LET a == loadAuthorized(file)
  IN IF validIndex(a, requestIndex)
     THEN LET a2 == [a EXCEPT !.pendingRequests[requestIndex + 1].status = "rejected"]
          IN [mem |-> a2, file |-> a2, val |-> a2.pendingRequests[requestIndex + 1]]
     ELSE [mem |-> a, file |-> file, val |-> NullRequest]

(***************************************************************************)
(* Objects used as maps: a function whose domain is the set of keys        *)
(***************************************************************************)
EmptyMap == <<>>

has(m, k) == k \in DOMAIN m

put(m, k, v) == [x \in (DOMAIN m) \cup {k} |-> IF x = k THEN v ELSE m[x]]

delete(m, k) == [x \in (DOMAIN m) \ {k} |-> m[x]]

(***************************************************************************)
(* TokenManager                                                            *)
(***************************************************************************)
defaultApiKey == "k0"
defaultToken == "t0"

\* aes-256-cbc under the key of this process: the ciphertext is "<iv>:<hex>";
\* the iv is random and plays no part in what decrypt returns
encrypt(text) == <<"iv", text>>

\* anything that is not a ciphertext makes decipher throw: the input comes back
decrypt(text) == IF Len(text) = 2 /\ text[1] = "iv" THEN text[2] ELSE text

\* `x || y` of JavaScript on strings: the empty string is falsy
orElse(x, y) == IF x = "" THEN y ELSE x

\* a field absent from the file
Absent == <<>>

loadTokens(file) ==
  LET kept == {k \in DOMAIN file : file[k].token # Absent}
  IN [k \in kept |-> [file[k] EXCEPT !.token = decrypt(@),
                                     !.apiKey = IF @ # Absent THEN decrypt(@) ELSE defaultApiKey]]

saveTokens(mem) ==
  [k \in DOMAIN mem |-> [mem[k] EXCEPT !.token = encrypt(@),
                                       !.apiKey = encrypt(orElse(mem[k].apiKey, defaultApiKey))]]

\* setToken works on the in-memory map without reloading
setTokenSingle(mem, chatId, token, apiKey, workspace) ==
  LET m2 == put(EmptyMap, chatId, [token |-> token,
                                   apiKey |-> orElse(apiKey, defaultApiKey),
                                   workspace |-> orElse(workspace, "Unknown Workspace")])
  IN [mem |-> m2, file |-> saveTokens(m2), val |-> TRUE]

setToken(mem, chatId, token, apiKey, workspace) ==
  LET m2 == put(mem, chatId, [token |-> token,
                              apiKey |-> orElse(apiKey, defaultApiKey),
                              workspace |-> orElse(workspace, "Unknown Workspace")])
  IN [mem |-> m2, file |-> saveTokens(m2), val |-> TRUE]

DefaultTokenData == [apiKey |-> defaultApiKey, token |-> defaultToken, workspace |-> "Default Workspace"]

getTokenDefaultKey(file, chatId) ==
  LET m == loadTokens(file)
  IN IF has(m, chatId)
     THEN [mem |-> m, file |-> saveTokens(m),
           val |-> [apiKey |-> defaultApiKey, token |-> m[chatId].token,
                    workspace |-> m[chatId].workspace]]
     ELSE [mem |-> m, file |-> file, val |-> DefaultTokenData]

\* getToken reloads, stamps lastUsed and saves when the chat has a record
getToken(file, chatId) ==
  LET m == loadTokens(file)
  IN IF has(m, chatId)
     THEN [mem |-> m, file |-> saveTokens(m),
           val |-> [apiKey |-> orElse(m[chatId].apiKey, defaultApiKey),
                    token |-> m[chatId].token,
                    workspace |-> m[chatId].workspace]]
     ELSE [mem |-> m, file |-> file, val |-> DefaultTokenData]

\* removeToken works on the in-memory map without reloading
removeToken(mem, file, chatId) ==
  IF has(mem, chatId)
  THEN [mem |-> delete(mem, chatId), file |-> saveTokens(delete(mem, chatId)), val |-> TRUE]
  ELSE [mem |-> mem, file |-> file, val |-> FALSE]

hasCustomToken(file, chatId) == has(loadTokens(file), chatId)

(***************************************************************************)
(* ConfigManager: every method reads the file and writes it back           *)
(***************************************************************************)
NoConfig == [boardId |-> "", defaultListId |-> ""]

getChatConfig(file, chatId) == IF has(file, chatId) THEN file[chatId] ELSE NoConfig

\* setChatConfig merges the stored entry with `settings`; both callers pass
\* boardId and defaultListId, so the merge is the replacement of both fields
setChatConfig(file, chatId, settings) == put(file, chatId, settings)

clearChatConfig(file, chatId) == delete(file, chatId)

NoStats == [totalCards |-> 0, users |-> {}]

incrementStats(file, chatId, userId) ==
  LET cur == IF has(file, chatId) THEN file[chatId] ELSE NoStats
  IN put(file, chatId, [totalCards |-> cur.totalCards + 1, users |-> cur.users \cup {userId}])

(***************************************************************************)
(* Events.  In a private chat the chat id is the sender's user id; group   *)
(* and supergroup chats have their own (negative) ids.                     *)
(***************************************************************************)
PrivateMsg(u) == [from |-> [id |-> u], chat |-> [id |-> u, type |-> "private"]]

GroupMsg(u, g, t) == [from |-> [id |-> u], chat |-> [id |-> g, type |-> t]]

Msgs == {PrivateMsg(u) : u \in UserIds}
          \cup {GroupMsg(u, g, t) : u \in UserIds, g \in GroupIds, t \in {"group", "supergroup"}}

ChatIdsOf(u) == {u} \cup GroupIds

\* handleRequestAccess files a request only for a sender that is not
\* authorized, hence never for an admin
Requesters == {u \in UserIds : ~isAdmin(ToString(u))}

TypeOf(c) == IF c \in GroupIds THEN "group" ELSE "user"

(***************************************************************************)
(* Calls of the AuthManager methods, one action per method                 *)
(***************************************************************************)
Ret(op, userId, chatId, index, val, request) ==
  [op |-> op, userId |-> userId, chatId |-> chatId, index |-> index,
   val |-> val, request |-> request]

BoolStr(b) == IF b THEN "true" ELSE "false"

ReqStr(r) == IF r = NullRequest THEN "null" ELSE "request"

Store(r) == authorized' = r.mem /\ authFile' = r.file /\ UNCHANGED botVars

CallIsAuthorized(msg) ==
  /\ authorized' = isAuthorizedMem(authorized, authFile, msg)
  /\ authFile' = authFile
  /\ UNCHANGED botVars
  /\ ret' = Ret("isAuthorized", ToString(msg.from.id), ToString(msg.chat.id), -1,
                BoolStr(isAuthorized(authFile, msg)), NullRequest)

CallAuthorizeUser(u) ==
  LET r == authorizeUser(authFile, ToString(u))
  IN Store(r) /\ ret' = Ret("authorizeUser", ToString(u), "", -1, BoolStr(r.val), NullRequest)

CallUnauthorizeUser(u) ==
  LET r == unauthorizeUser(authFile, ToString(u))
  IN Store(r) /\ ret' = Ret("unauthorizeUser", ToString(u), "", -1, BoolStr(r.val), NullRequest)

CallAuthorizeGroup(g) ==
  LET r == authorizeGroup(authFile, ToString(g))
  IN Store(r) /\ ret' = Ret("authorizeGroup", "", ToString(g), -1, BoolStr(r.val), NullRequest)

CallUnauthorizeGroup(g) ==
  LET r == unauthorizeGroup(authFile, ToString(g))
  IN Store(r) /\ ret' = Ret("unauthorizeGroup", "", ToString(g), -1, BoolStr(r.val), NullRequest)

CallAddAccessRequest(u, c) ==
  LET r == addAccessRequest(authFile, ToString(u), ToString(c), TypeOf(c))
  IN /\ Len(r.mem.pendingRequests) <= MaxRequests
     /\ Store(r)
     /\ ret' = Ret("addAccessRequest", ToString(u), ToString(c), -1, ReqStr(r.val), r.val)

CallApproveRequest(i) ==
  LET r == approveRequest(authFile, i)
  IN Store(r) /\ ret' = Ret("approveRequest", "", "", i, ReqStr(r.val), r.val)

CallRejectRequest(i) ==
  LET r == rejectRequest(authFile, i)
  IN Store(r) /\ ret' = Ret("rejectRequest", "", "", i, ReqStr(r.val), r.val)

NoRet == Ret("none", "", "", -1, "null", NullRequest)

\* no event handled yet
NoOut == [kind |-> "none", admin |-> FALSE, authorized |-> FALSE, gated |-> FALSE,
          invoked |-> FALSE, sent |-> <<>>, threw |-> FALSE, card |-> "none", credChat |-> "",
          cardList |-> "", cardText |-> [mention |-> FALSE, lines |-> <<>>]]

NoEvent == [key |-> "", chatId |-> "", text |-> [mention |-> FALSE, lines |-> <<>>],
            data |-> "", step |-> "none",
            e |-> [sendOk |-> TRUE, trello |-> "ok", valid |-> TRUE]]

\* first boot: data/ holds no tokens, no chat configuration and no statistics
FirstBoot ==
  /\ tokens = EmptyMap /\ tokensFile = EmptyMap /\ credOf = EmptyMap
  /\ configFile = EmptyMap /\ statsFile = EmptyMap
  /\ userSessions = EmptyMap /\ trelloServices = {}
  /\ out = NoOut /\ ev = NoEvent /\ nEvents = 0
  /\ ConnBoot /\ TextIdle /\ NoTasks

InitAuth ==
  /\ authFile \in {FreshAuth, OldAuth}
  /\ authorized = loadAuthorized(authFile)
  /\ ret = NoRet
  /\ FirstBoot

NextAuth ==
  \/ \E msg \in Msgs : CallIsAuthorized(msg)
  \/ \E u \in UserIds : CallAuthorizeUser(u)
  \/ \E u \in UserIds : CallUnauthorizeUser(u)
  \/ \E g \in GroupIds : CallAuthorizeGroup(g)
  \/ \E g \in GroupIds : CallUnauthorizeGroup(g)
  \/ \E u \in Requesters : \E c \in ChatIdsOf(u) : CallAddAccessRequest(u, c)
  \/ \E i \in -1..MaxRequests : CallApproveRequest(i)
  \/ \E i \in -1..MaxRequests : CallRejectRequest(i)

SpecAuth == InitAuth /\ [][NextAuth]_vars

(***************************************************************************)
(* TrelloAssistantBot.  A handler is an operator from the state before,    *)
(* the event and what the outside world does during the event, to the      *)
(* state after and what the bot handed to the chat transport.              *)
(***************************************************************************)
St == [auth |-> authorized, authFile |-> authFile, tokens |-> tokens,
       tokensFile |-> tokensFile, config |-> configFile, stats |-> statsFile,
       sessions |-> userSessions, cache |-> trelloServices, cred |-> credOf]

\* the state a handler sees after `await this.auth.isAuthorized(msg)`
checked(st) == [st EXCEPT !.auth = loadAuthorized(st.authFile)]

\* sent: the messages handed to the transport, in order; threw: the promise of
\* the registered callback rejected; card: what was done on the tracking
\* service; credChat: the chat whose credentials the Trello client was built from
\* cardList, cardText: the list and the text a created card was built from
ResCard(st, sent, threw, card, credChat, cardList, cardText) ==
  [st |-> st, sent |-> sent, threw |-> threw, card |-> card, credChat |-> credChat,
   invoked |-> TRUE, cardList |-> cardList, cardText |-> cardText]

Res(st, sent, threw, card, credChat) ==
  ResCard(st, sent, threw, card, credChat, "", [mention |-> FALSE, lines |-> <<>>])

\* what the outside world does during one event: the chat transport accepts
\* the bot's calls or rejects them all; the tracking service answers, fails on
\* reads, fails on writes, knows no list/board at all, or not the one asked
\* for; the validation endpoint accepts the submitted pair or not
TrelloOutcomes == {"ok", "readFail", "writeFail", "empty", "notFound"}

Env(sendOk, trello, valid) == [sendOk |-> sendOk, trello |-> trello, valid |-> valid]

EnvSend == {Env(b, "ok", TRUE) : b \in BOOLEAN}

EnvTrello == {Env(b, t, TRUE) : b \in BOOLEAN, t \in TrelloOutcomes}

\* for the handlers that only read from the tracking service
EnvRead == {Env(b, t, TRUE) : b \in BOOLEAN, t \in {"ok", "readFail", "empty"}}

\* for the handlers that fetch one card and archive it
EnvCard == {Env(b, t, TRUE) : b \in BOOLEAN, t \in {"ok", "notFound", "writeFail"}}

EnvValidate == {Env(b, "ok", v) : b \in BOOLEAN, v \in BOOLEAN}

chatIdOf(msg) == ToString(msg.chat.id)

sessionKeySender(msg) == ToString(msg.from.id)

sessionKey(msg) ==
  IF IsGroup(msg) THEN "group_" \o ToString(msg.chat.id) ELSE ToString(msg.from.id)

\* the people who talk to the bot: the admin and somebody else
Senders == {1, 2}

\* the chats and senders of the bot's events: each sender's private chat and
\* each sender in each group
BotMsgs == {PrivateMsg(u) : u \in Senders} \cup {GroupMsg(u, g, "group") : u \in Senders, g \in GroupIds}

(***************************************************************************)
(* Message texts: the lines of the text; a line is a bare value or carries *)
(* one of the labels the handlers' regular expressions look for            *)
(***************************************************************************)
Line(label, value) == [label |-> label, value |-> value]

Text(mention, lines) == [mention |-> mention, lines |-> lines]

NoIdea == Text(FALSE, <<>>)

Texts == { Text(FALSE, <<Line("", "buy milk")>>),
           Text(FALSE, <<Line("", "k1"), Line("", "t1")>>),
           Text(FALSE, <<Line("API_KEY", "k2"), Line("TOKEN", "t2")>>),
           Text(FALSE, <<Line("TOKEN", "t1")>>),
           Text(TRUE, <<Line("idea", "buy milk")>>),
           Text(TRUE, <<Line("task", "buy milk")>>) }

\* the last line with the label, "" when there is none
RECURSIVE labelled(_, _, _)
labelled(lines, label, i) ==
  IF i = 0 THEN ""
  ELSE IF lines[i].label = label THEN lines[i].value
  ELSE labelled(lines, label, i - 1)

parseCredentialsSwapped(text) ==
  LET lines == text.lines
      apiKey == labelled(lines, "API_KEY", Len(lines))
      token == labelled(lines, "TOKEN", Len(lines))
  IN IF apiKey = "" /\ token = "" /\ Len(lines) = 2
     THEN [apiKey |-> lines[2].value, token |-> lines[1].value]
     ELSE [apiKey |-> apiKey, token |-> token]

parseCredentials(text) ==
  LET lines == text.lines
      apiKey == labelled(lines, "API_KEY", Len(lines))
      token == labelled(lines, "TOKEN", Len(lines))
  IN IF apiKey = "" /\ token = "" /\ Len(lines) = 2
     THEN [apiKey |-> lines[1].value, token |-> lines[2].value]
     ELSE [apiKey |-> apiKey, token |-> token]

\* the account name the validation endpoint reports for a pair
fullName(apiKey) == "Account " \o apiKey

(***************************************************************************)
(* Sessions                                                                *)
(***************************************************************************)
IdeaSession(userId, chatId) ==
  [step |-> "waiting_for_idea", type |-> "addidea", hasData |-> TRUE, idea |-> NoIdea,
   originalUserId |-> userId, chatId |-> chatId]

WorkspaceSession(chatId) ==
  [step |-> "waiting_for_credentials", type |-> "setworkspace", hasData |-> FALSE,
   idea |-> NoIdea, originalUserId |-> 0, chatId |-> chatId]

(***************************************************************************)
(* getTrelloService: resolve the chat's credentials and cache the client   *)
(***************************************************************************)
serviceKey(tokenData) == tokenData.apiKey \o ":" \o tokenData.token

getTrelloService(st, chatId) ==
  LET g == getToken(st.tokensFile, chatId)
  IN [st EXCEPT !.tokens = g.mem, !.tokensFile = g.file,
                !.cache = @ \cup {serviceKey(g.val)}]

(***************************************************************************)
(* Command handlers                                                        *)
(***************************************************************************)
\* the unauthorized branch sends the hint with no try/catch around it
withAuth(st, msg, e, callback) ==
  IF isAuthorized(st.authFile, msg)
  THEN callback
  ELSE [Res(checked(st), <<"unauthorized">>, ~e.sendOk, "none", "") EXCEPT !.invoked = FALSE]

NoParam == [cardId |-> "", listId |-> "", chatId |-> ""]

\* /start complete_<cardId>_<listId>_<chatId> archives the card with the
\* credentials of <chatId>; the plain /start only greets.  The registered
\* callback catches whatever handleStart throws.
handleStart(st, msg, param, e) ==
  IF param # NoParam
  THEN LET originalChatId == IF param.chatId = "" THEN chatIdOf(msg) ELSE param.chatId
           s1 == getTrelloService(st, originalChatId)
       IN IF e.trello \in {"readFail", "notFound", "writeFail"}
          THEN Res(s1, <<"completeFailed">>, FALSE, "none", originalChatId)
          ELSE Res(s1, IF e.sendOk THEN <<"cardCompleted", "updatedList">> ELSE <<"cardCompleted">>,
                   FALSE, "archiveCard", originalChatId)
  ELSE Res(checked(st),
           IF isAdmin(ToString(msg.from.id)) THEN <<"welcomeAdmin">>
           ELSE IF isAuthorized(st.authFile, msg) THEN <<"welcomeBack">>
           ELSE <<"welcomeUnauthorized">>,
           FALSE, "none", "")

\* the registered callback catches what handleHelp throws
handleHelp(st, msg, e) ==
  Res([st EXCEPT !.tokens = loadTokens(st.tokensFile)], <<"help">>, FALSE, "none", "")

\* handleQuickIdea and handleQuickTask differ in the card's prefix only
handleQuickIdea(st, msg, e) ==
  LET chatId == chatIdOf(msg)
      config == getChatConfig(st.config, chatId)
      s1 == getTrelloService(st, chatId)
  IN IF config.boardId = "" THEN Res(st, <<"noBoard">>, ~e.sendOk, "none", "")
     ELSE IF config.defaultListId = "" /\ e.trello = "readFail"
       THEN Res(s1, <<"createFailed">>, ~e.sendOk, "none", chatId)
     ELSE IF config.defaultListId = "" /\ e.trello = "empty"
       THEN Res(s1, <<"noLists">>, ~e.sendOk, "none", chatId)
     ELSE IF e.trello = "writeFail"
       THEN Res(s1, <<"createFailed">>, ~e.sendOk, "none", chatId)
     ELSE IF e.sendOk
       THEN Res([s1 EXCEPT !.stats = incrementStats(@, chatId, msg.from.id)],
                <<"captured">>, FALSE, "createCard", chatId)
     ELSE Res(s1, <<"captured">>, TRUE, "createCard", chatId)

handleQuickTask(st, msg, e) == handleQuickIdea(st, msg, e)

\* /boards, /workspace: ask the chat's account for its boards
handleListBoards(st, msg, e) ==
  LET s1 == getTrelloService(st, chatIdOf(msg))
  IN Res(s1, IF e.trello = "readFail" THEN <<"fetchFailed">>
             ELSE IF e.trello = "empty" THEN <<"noBoards">> ELSE <<"boards">>,
         ~e.sendOk, "none", chatIdOf(msg))

handleViewWorkspace(st, msg, e) ==
  LET s1 == getTrelloService(st, chatIdOf(msg))
  IN Res(s1, IF e.trello = "readFail" THEN <<"fetchFailed">> ELSE <<"workspace">>,
         ~e.sendOk, "none", chatIdOf(msg))

\* /lists, /view, /search: need a selected board, then read it
handleListLists(st, msg, e) ==
  LET chatId == chatIdOf(msg)
      config == getChatConfig(st.config, chatId)
      s1 == getTrelloService(st, chatId)
  IN IF config.boardId = "" THEN Res(st, <<"noBoard">>, ~e.sendOk, "none", "")
     ELSE Res(s1, IF e.trello = "readFail" THEN <<"fetchFailed">>
                  ELSE IF e.trello = "empty" THEN <<"noLists">> ELSE <<"lists">>,
              ~e.sendOk, "none", chatId)

handleViewCards(st, msg, e) == handleListLists(st, msg, e)

handleSearchCards(st, msg, e) == handleListLists(st, msg, e)

handleStatus(st, msg, e) ==
  LET chatId == chatIdOf(msg)
      config == getChatConfig(st.config, chatId)
      s1 == getTrelloService(st, chatId)
  IN IF config.boardId = "" /\ config.defaultListId = ""
     THEN Res(st, <<"status">>, ~e.sendOk, "none", "")
     ELSE Res(s1, IF e.trello = "readFail" \/ config.boardId = "" THEN <<"fetchFailed">>
                  ELSE <<"status">>,
              ~e.sendOk, "none", chatId)

\* /assign and /label
handleAssignCard(st, msg, e) == Res(st, <<"comingSoon">>, ~e.sendOk, "none", "")

handleInteractiveIdea(st, msg, e) ==
  LET chatId == chatIdOf(msg)
      config == getChatConfig(st.config, chatId)
  IN IF config.boardId = "" THEN Res(st, <<"noBoard">>, ~e.sendOk, "none", "")
     ELSE Res([st EXCEPT !.sessions = put(@, sessionKey(msg), IdeaSession(msg.from.id, chatId))],
              <<"whatsYourIdea">>, ~e.sendOk, "none", "")

handleSetWorkspace(st, msg, e) ==
  Res([st EXCEPT !.sessions = put(@, sessionKey(msg), WorkspaceSession(chatIdOf(msg)))],
      <<"instructions">>, ~e.sendOk, "none", "")

handleRemoveWorkspaceKeepConfig(st, msg, e) ==
  LET chatId == chatIdOf(msg)
      loaded == loadTokens(st.tokensFile)
      r == removeToken(loaded, st.tokensFile, chatId)
  IN IF ~hasCustomToken(st.tokensFile, chatId)
     THEN Res([st EXCEPT !.tokens = loaded], <<"usingDefault">>, ~e.sendOk, "none", "")
     ELSE IF r.val
       THEN Res([st EXCEPT !.tokens = r.mem, !.tokensFile = r.file, !.cache = {},
                           !.cred = delete(@, chatId)],
                <<"workspaceRemoved">>, ~e.sendOk, "none", "")
     ELSE Res([st EXCEPT !.tokens = loaded], <<"removeFailed">>, ~e.sendOk, "none", "")

handleRemoveWorkspace(st, msg, e) ==
  LET chatId == chatIdOf(msg)
      loaded == loadTokens(st.tokensFile)
      r == removeToken(loaded, st.tokensFile, chatId)
  IN IF ~hasCustomToken(st.tokensFile, chatId)
     THEN Res([st EXCEPT !.tokens = loaded], <<"usingDefault">>, ~e.sendOk, "none", "")
     ELSE IF r.val
       THEN Res([st EXCEPT !.tokens = r.mem, !.tokensFile = r.file, !.cache = {},
                           !.config = clearChatConfig(@, chatId),
                           !.cred = delete(@, chatId)],
                <<"workspaceRemoved">>, ~e.sendOk, "none", "")
     ELSE Res([st EXCEPT !.tokens = loaded], <<"removeFailed">>, ~e.sendOk, "none", "")

\* /settings, /network and /stats answer admins and refuse everybody else
handleSettings(st, msg, e) ==
  Res(st, IF isAdmin(ToString(msg.from.id)) THEN <<"settings">> ELSE <<"administratorsOnly">>,
      ~e.sendOk, "none", "")

handleClearBoard(st, msg, e) ==
  IF ~isAdmin(ToString(msg.from.id))
  THEN Res(st, <<"administratorsOnly">>, ~e.sendOk, "none", "")
  ELSE Res([st EXCEPT !.config = clearChatConfig(@, chatIdOf(msg))],
           <<"configCleared">>, ~e.sendOk, "none", "")

(***************************************************************************)
(* Authorization commands                                                  *)
(***************************************************************************)
withStore(st, r) == [st EXCEPT !.auth = r.mem, !.authFile = r.file]

handleRequestAccess(st, msg, e) ==
  LET r == addAccessRequest(st.authFile, ToString(msg.from.id), chatIdOf(msg),
                            IF IsGroup(msg) THEN "group" ELSE "user")
  IN IF isAuthorized(st.authFile, msg)
     THEN Res(checked(st), <<"alreadyHaveAccess">>, ~e.sendOk, "none", "")
     ELSE IF r.val = NullRequest
       THEN Res(withStore(st, r), <<"alreadyPending">>, ~e.sendOk, "none", "")
     ELSE Res(withStore(st, r),
              IF e.sendOk THEN <<"requestSubmitted", "notifyAdmins">> ELSE <<"requestSubmitted">>,
              ~e.sendOk, "none", "")

\* the parameter of /authorize and /unauthorize: "<id>" or "group:<id>"
Param(targetType, targetId) == [targetType |-> targetType, targetId |-> targetId]

Params == {Param("user", ToString(u)) : u \in Senders} \cup {Param("group", ToString(g)) : g \in GroupIds}

handleAuthorizeAnyone(st, msg, param, e) ==
  LET r == IF param.targetType = "group" THEN authorizeGroup(st.authFile, param.targetId)
           ELSE authorizeUser(st.authFile, param.targetId)
  IN Res(withStore(st, r), <<"authorized">>, ~e.sendOk, "none", "")

handleAuthorize(st, msg, param, e) ==
  LET r == IF param.targetType = "group" THEN authorizeGroup(st.authFile, param.targetId)
           ELSE authorizeUser(st.authFile, param.targetId)
  IN IF ~isAdmin(ToString(msg.from.id))
     THEN Res(st, <<"adminOnly">>, ~e.sendOk, "none", "")
     ELSE IF r.val
       THEN Res(withStore(st, r), IF e.sendOk THEN <<"authorized", "accessGranted">> ELSE <<"authorized">>,
                ~e.sendOk, "none", "")
     ELSE Res(withStore(st, r), <<"alreadyAuthorized">>, ~e.sendOk, "none", "")

handleUnauthorize(st, msg, param, e) ==
  LET r == IF param.targetType = "group" THEN unauthorizeGroup(st.authFile, param.targetId)
           ELSE unauthorizeUser(st.authFile, param.targetId)
  IN IF ~isAdmin(ToString(msg.from.id))
     THEN Res(st, <<"adminOnly">>, ~e.sendOk, "none", "")
     ELSE Res(withStore(st, r), IF r.val THEN <<"unauthorized-ok">> ELSE <<"couldNotUnauthorize">>,
              ~e.sendOk, "none", "")

handleViewRequests(st, msg, e) ==
  IF ~isAdmin(ToString(msg.from.id))
  THEN Res(st, <<"adminOnly">>, ~e.sendOk, "none", "")
  ELSE Res(checked(st),
           IF Len(getPendingRequests(st.authFile)) = 0 THEN <<"noPending">> ELSE <<"pendingRequests">>,
           ~e.sendOk, "none", "")

handleViewAuthorized(st, msg, e) ==
  IF ~isAdmin(ToString(msg.from.id))
  THEN Res(st, <<"adminOnly">>, ~e.sendOk, "none", "")
  ELSE Res(checked(st), <<"authorizedList">>, ~e.sendOk, "none", "")

\* "/requests" also matches the pattern registered for /request: both
\* callbacks run, handleRequestAccess first
both(r1, r2) ==
  [r2 EXCEPT !.sent = r1.sent \o @, !.threw = r1.threw \/ @]

(***************************************************************************)
(* Callback queries.  handleCallbackQuery answers 'Error occurred' to      *)
(* whatever a case throws; nothing catches what that answer throws.        *)
(***************************************************************************)
Boards == {"b1"}
Lists == {"l1"}
Cards == {"c1"}

selectBoard(st, query, boardId, e) ==
  LET chatId == chatIdOf(query)
      s1 == [st EXCEPT !.config = setChatConfig(@, chatId, [boardId |-> boardId, defaultListId |-> ""])]
      s2 == getTrelloService(s1, chatId)
  IN Res(s2, IF e.trello \in {"ok", "writeFail"} THEN <<"boardSelected">> ELSE <<"errorOccurred">>,
         ~e.sendOk, "none", chatId)

selectList(st, query, listId, e) ==
  LET chatId == chatIdOf(query)
      config == getChatConfig(st.config, chatId)
      s1 == [st EXCEPT !.config = setChatConfig(@, chatId, [config EXCEPT !.defaultListId = listId])]
      s2 == getTrelloService(s1, chatId)
  IN Res(s2, IF e.trello \in {"ok", "writeFail"} /\ config.boardId # ""
             THEN <<"listSelected">> ELSE <<"errorOccurred">>,
         ~e.sendOk, "none", chatId)

handleIdeaListSelectionKeepsSession(st, query, listId, e) ==
  LET chatId == chatIdOf(query)
      key == sessionKey(query)
      config == getChatConfig(st.config, chatId)
      s1 == getTrelloService(st, chatId)
  IN IF ~has(st.sessions, key)
     THEN Res(st, <<"sessionExpired">>, ~e.sendOk, "none", "")
     ELSE IF ~st.sessions[key].hasData
       THEN Res(st, <<"errorOccurred">>, ~e.sendOk, "none", "")
     ELSE IF st.sessions[key].idea = NoIdea
       THEN Res(st, <<"sessionExpired">>, ~e.sendOk, "none", "")
     ELSE IF e.trello # "ok" \/ config.boardId = ""
       THEN Res(s1, <<"failedToCreate">>, ~e.sendOk, "none", chatId)
     ELSE IF e.sendOk
       THEN ResCard([s1 EXCEPT !.stats = incrementStats(@, chatId, query.from.id)],
                    <<"ideaAdded">>, FALSE, "createCard", chatId, listId, st.sessions[key].idea)
     ELSE ResCard(s1, <<"ideaAdded">>, TRUE, "createCard", chatId, listId, st.sessions[key].idea)

handleIdeaListSelection(st, query, listId, e) ==
  LET chatId == chatIdOf(query)
      key == sessionKey(query)
      config == getChatConfig(st.config, chatId)
      s1 == getTrelloService(st, chatId)
      s2 == [s1 EXCEPT !.sessions = delete(@, key)]
  IN IF ~has(st.sessions, key)
     THEN Res(st, <<"sessionExpired">>, ~e.sendOk, "none", "")
     ELSE IF ~st.sessions[key].hasData
       THEN Res(st, <<"errorOccurred">>, ~e.sendOk, "none", "")
     ELSE IF st.sessions[key].idea = NoIdea
       THEN Res(st, <<"sessionExpired">>, ~e.sendOk, "none", "")
     ELSE IF e.trello # "ok" \/ config.boardId = ""
       THEN Res(s1, <<"failedToCreate">>, ~e.sendOk, "none", chatId)
     ELSE IF e.sendOk
       THEN ResCard([s2 EXCEPT !.stats = incrementStats(@, chatId, query.from.id)],
                    <<"ideaAdded">>, FALSE, "createCard", chatId, listId, st.sessions[key].idea)
     ELSE ResCard(s2, <<"ideaAdded">>, TRUE, "createCard", chatId, listId, st.sessions[key].idea)

handleViewListCards(st, query, listId, e) ==
  Res(getTrelloService(st, chatIdOf(query)),
      IF e.trello = "readFail" THEN <<"loadFailed">> ELSE <<"cards">>,
      ~e.sendOk, "none", chatIdOf(query))

handleCompleteCard(st, query, cardId, listId, e) ==
  LET s1 == getTrelloService(st, chatIdOf(query))
  IN IF e.trello \in {"readFail", "notFound", "writeFail"}
     THEN Res(s1, <<"completeFailed">>, ~e.sendOk, "none", chatIdOf(query))
     ELSE Res(s1, IF e.sendOk THEN <<"completed", "cards">> ELSE <<"completed">>,
              ~e.sendOk, "archiveCard", chatIdOf(query))

(***************************************************************************)
(* Plain messages: handleMentions, handleSessionMessage and                *)
(* handleWorkspaceSetup.  The 'message' callback catches what they throw.  *)
(***************************************************************************)
handleCancelIdeaOnly(st, msg, e) ==
  IF has(st.sessions, sessionKey(msg)) /\ st.sessions[sessionKey(msg)].type = "addidea"
  THEN Res([st EXCEPT !.sessions = delete(@, sessionKey(msg))], <<"cancelled">>, FALSE, "none", "")
  ELSE Res(st, <<>>, FALSE, "none", "")

handleCancel(st, msg, e) ==
  IF has(st.sessions, sessionKey(msg))
  THEN Res([st EXCEPT !.sessions = delete(@, sessionKey(msg))], <<"cancelled">>, FALSE, "none", "")
  ELSE Res(st, <<>>, FALSE, "none", "")

handleWorkspaceSetupUnvalidated(st, msg, text, e) ==
  LET chatId == chatIdOf(msg)
      c == parseCredentials(text)
      r == setToken(st.tokens, chatId, c.token, c.apiKey, fullName(c.apiKey))
  IN IF c.apiKey = "" \/ c.token = ""
     THEN Res(st, <<"invalidFormat">>, FALSE, "none", "")
     ELSE IF ~e.valid
       THEN Res([st EXCEPT !.tokens = r.mem, !.tokensFile = r.file, !.cred = put(@, chatId, c)],
                <<"invalidCredentials">>, FALSE, "none", "")
     ELSE Res([st EXCEPT !.tokens = r.mem, !.tokensFile = r.file,
                         !.sessions = delete(@, sessionKey(msg)),
                         !.cache = {},
                         !.config = clearChatConfig(@, chatId),
                         !.cred = put(@, chatId, c)],
              <<"workspaceConfigured">>, FALSE, "none", "")

handleWorkspaceSetup(st, msg, text, e) ==
  LET chatId == chatIdOf(msg)
      c == parseCredentials(text)
      r == setToken(st.tokens, chatId, c.token, c.apiKey, fullName(c.apiKey))
  IN IF c.apiKey = "" \/ c.token = ""
     THEN Res(st, <<"invalidFormat">>, FALSE, "none", "")
     ELSE IF ~e.valid
       THEN Res(st, <<"invalidCredentials">>, FALSE, "none", "")
     ELSE Res([st EXCEPT !.tokens = r.mem, !.tokensFile = r.file,
                         !.sessions = delete(@, sessionKey(msg)),
                         !.cache = {},
                         !.config = clearChatConfig(@, chatId),
                         !.cred = put(@, chatId, c)],
              <<"workspaceConfigured">>, FALSE, "none", "")

handleSessionMessageAnyStep(st, msg, text, e) ==
  LET chatId == chatIdOf(msg)
      key == sessionKey(msg)
      session == st.sessions[key]
      config == getChatConfig(st.config, chatId)
      advanced == [session EXCEPT !.idea = text, !.step = "waiting_for_list"]
      s1 == getTrelloService(st, chatId)
      gone == [s1 EXCEPT !.sessions = delete(@, key)]
  IN IF session.type = "setworkspace" THEN handleWorkspaceSetup(st, msg, text, e)
     ELSE IF config.boardId = ""
       THEN Res([st EXCEPT !.sessions = delete(@, key)], <<"noBoard">>, FALSE, "none", "")
     ELSE IF e.trello = "readFail" THEN Res(gone, <<"tryAgain">>, FALSE, "none", chatId)
     ELSE IF e.trello = "empty" THEN Res(gone, <<"noLists">>, FALSE, "none", chatId)
     ELSE IF ~e.sendOk THEN Res(gone, <<"selectList", "tryAgain">>, FALSE, "none", chatId)
     ELSE Res([s1 EXCEPT !.sessions = put(@, key, advanced)], <<"selectList">>, FALSE, "none", chatId)

handleSessionMessage(st, msg, text, e) ==
  LET chatId == chatIdOf(msg)
      key == sessionKey(msg)
      session == st.sessions[key]
      config == getChatConfig(st.config, chatId)
      advanced == [session EXCEPT !.idea = text, !.step = "waiting_for_list"]
      s1 == getTrelloService(st, chatId)
      gone == [s1 EXCEPT !.sessions = delete(@, key)]
  IN IF session.type = "setworkspace" THEN handleWorkspaceSetup(st, msg, text, e)
     ELSE IF session.step # "waiting_for_idea" THEN Res(st, <<>>, FALSE, "none", "")
     ELSE IF config.boardId = ""
       THEN Res([st EXCEPT !.sessions = delete(@, key)], <<"noBoard">>, FALSE, "none", "")
     ELSE IF e.trello = "readFail" THEN Res(gone, <<"tryAgain">>, FALSE, "none", chatId)
     ELSE IF e.trello = "empty" THEN Res(gone, <<"noLists">>, FALSE, "none", chatId)
     ELSE IF ~e.sendOk THEN Res(gone, <<"selectList", "tryAgain">>, FALSE, "none", chatId)
     ELSE Res([s1 EXCEPT !.sessions = put(@, key, advanced)], <<"selectList">>, FALSE, "none", chatId)

handleMentionsMentionFirst(st, msg, text, e) ==
  LET key == sessionKey(msg)
      session == st.sessions[key]
      renamed == IF IsGroup(msg) /\ session.step = "waiting_for_idea"
                 THEN [session EXCEPT !.originalUserId = msg.from.id] ELSE session
      viaMention(r) == [r EXCEPT !.threw = FALSE]
  IN IF text.mention /\ Len(text.lines) > 0 /\ text.lines[1].label = "idea"
     THEN viaMention(handleQuickIdea(st, msg, e))
     ELSE IF text.mention /\ Len(text.lines) > 0 /\ text.lines[1].label = "task"
       THEN viaMention(handleQuickTask(st, msg, e))
     ELSE IF has(st.sessions, key)
       THEN handleSessionMessage([st EXCEPT !.sessions = put(@, key, renamed)], msg, text, e)
     ELSE Res(st, <<>>, FALSE, "none", "")

handleMentions(st, msg, text, e) ==
  LET key == sessionKey(msg)
      session == st.sessions[key]
      renamed == IF IsGroup(msg) /\ session.step = "waiting_for_idea"
                 THEN [session EXCEPT !.originalUserId = msg.from.id] ELSE session
      viaMention(r) == [r EXCEPT !.threw = FALSE]
  IN IF has(st.sessions, key)
     THEN handleSessionMessage([st EXCEPT !.sessions = put(@, key, renamed)], msg, text, e)
     ELSE IF text.mention /\ Len(text.lines) > 0 /\ text.lines[1].label = "idea"
       THEN viaMention(handleQuickIdea(st, msg, e))
     ELSE IF text.mention /\ Len(text.lines) > 0 /\ text.lines[1].label = "task"
       THEN viaMention(handleQuickTask(st, msg, e))
     ELSE Res(st, <<>>, FALSE, "none", "")

(***************************************************************************)
(* setupHandlers: one action per registered command, callback case and     *)
(* message kind                                                            *)
(***************************************************************************)
Apply(kind, msg, gated, r) ==
  /\ nEvents' = nEvents + 1
  /\ authorized' = r.st.auth /\ authFile' = r.st.authFile
  /\ tokens' = r.st.tokens /\ tokensFile' = r.st.tokensFile
  /\ configFile' = r.st.config /\ statsFile' = r.st.stats
  /\ userSessions' = r.st.sessions /\ trelloServices' = r.st.cache
  /\ credOf' = r.st.cred
  /\ out' = [kind |-> kind, admin |-> isAdmin(ToString(msg.from.id)),
             authorized |-> isAuthorized(authFile, msg), gated |-> gated,
             invoked |-> r.invoked, sent |-> r.sent, threw |-> r.threw,
             card |-> r.card, credChat |-> r.credChat,
             cardList |-> r.cardList, cardText |-> r.cardText]
  /\ ret' = ret
  /\ UNCHANGED <<connVars, textVars, tasks>>

Deliver(kind, msg, gated, r) ==
  /\ nEvents < MaxEvents
  /\ Apply(kind, msg, gated, r)
  /\ ev' = [NoEvent EXCEPT !.chatId = chatIdOf(msg)]

ChatStrs == {chatIdOf(msg) : msg \in BotMsgs}

DeepLinks == {[cardId |-> c, listId |-> l, chatId |-> x] : c \in Cards, l \in Lists, x \in ChatStrs \cup {""}}

OnStart == \E msg \in BotMsgs, e \in EnvSend :
  Deliver("start", msg, FALSE, handleStart(St, msg, NoParam, e))

OnStartComplete == \E msg \in BotMsgs, param \in DeepLinks, e \in EnvCard :
  Deliver("start complete", msg, FALSE, handleStart(St, msg, param, e))

OnTrellohelp == \E msg \in BotMsgs, e \in EnvSend :
  Deliver("trellohelp", msg, TRUE, withAuth(St, msg, e, handleHelp(checked(St), msg, e)))

OnRequest == \E msg \in BotMsgs, e \in EnvSend :
  Deliver("request", msg, FALSE, handleRequestAccess(St, msg, e))

OnAuthorize == \E msg \in BotMsgs, param \in Params, e \in EnvSend :
  Deliver("authorize", msg, FALSE, handleAuthorize(St, msg, param, e))

OnUnauthorize == \E msg \in BotMsgs, param \in Params, e \in EnvSend :
  Deliver("unauthorize", msg, FALSE, handleUnauthorize(St, msg, param, e))

OnRequests == \E msg \in BotMsgs, e \in EnvSend :
  LET r1 == handleRequestAccess(St, msg, e)
  IN Deliver("requests", msg, FALSE, both(r1, handleViewRequests(r1.st, msg, e)))

OnAuthorized == \E msg \in BotMsgs, e \in EnvSend :
  Deliver("authorized", msg, FALSE, handleViewAuthorized(St, msg, e))

OnSetworkspace == \E msg \in BotMsgs, e \in EnvSend :
  Deliver("setworkspace", msg, TRUE, withAuth(St, msg, e, handleSetWorkspace(checked(St), msg, e)))

OnRemoveworkspace == \E msg \in BotMsgs, e \in EnvSend :
  Deliver("removeworkspace", msg, TRUE, withAuth(St, msg, e, handleRemoveWorkspace(checked(St), msg, e)))

OnWorkspace == \E msg \in BotMsgs, e \in EnvRead :
  Deliver("workspace", msg, TRUE, withAuth(St, msg, e, handleViewWorkspace(checked(St), msg, e)))

OnIdea == \E msg \in BotMsgs, e \in EnvTrello :
  Deliver("idea", msg, TRUE, withAuth(St, msg, e, handleQuickIdea(checked(St), msg, e)))

OnTask == \E msg \in BotMsgs, e \in EnvTrello :
  Deliver("task", msg, TRUE, withAuth(St, msg, e, handleQuickTask(checked(St), msg, e)))

OnAddidea == \E msg \in BotMsgs, e \in EnvSend :
  Deliver("addidea", msg, TRUE, withAuth(St, msg, e, handleInteractiveIdea(checked(St), msg, e)))

OnBoards == \E msg \in BotMsgs, e \in EnvRead :
  Deliver("boards", msg, TRUE, withAuth(St, msg, e, handleListBoards(checked(St), msg, e)))

OnLists == \E msg \in BotMsgs, e \in EnvRead :
  Deliver("lists", msg, TRUE, withAuth(St, msg, e, handleListLists(checked(St), msg, e)))

OnView == \E msg \in BotMsgs, e \in EnvRead :
  Deliver("view", msg, TRUE, withAuth(St, msg, e, handleViewCards(checked(St), msg, e)))

OnAssign == \E msg \in BotMsgs, e \in EnvSend :
  Deliver("assign", msg, TRUE, withAuth(St, msg, e, handleAssignCard(checked(St), msg, e)))

OnLabel == \E msg \in BotMsgs, e \in EnvSend :
  Deliver("label", msg, TRUE, withAuth(St, msg, e, handleAssignCard(checked(St), msg, e)))

OnSearch == \E msg \in BotMsgs, e \in EnvRead :
  Deliver("search", msg, TRUE, withAuth(St, msg, e, handleSearchCards(checked(St), msg, e)))

OnSettings == \E msg \in BotMsgs, e \in EnvSend :
  Deliver("settings", msg, FALSE, handleSettings(St, msg, e))

OnStats == \E msg \in BotMsgs, e \in EnvSend :
  Deliver("stats", msg, FALSE, handleSettings(St, msg, e))

OnNetwork == \E msg \in BotMsgs, e \in EnvSend :
  Deliver("network", msg, FALSE, handleSettings(St, msg, e))

OnClearboard == \E msg \in BotMsgs, e \in EnvSend :
  Deliver("clearboard", msg, FALSE, handleClearBoard(St, msg, e))

OnStatus == \E msg \in BotMsgs, e \in EnvRead :
  Deliver("status", msg, TRUE, withAuth(St, msg, e, handleStatus(checked(St), msg, e)))

\* callback queries carry the sender and the chat of the message whose
\* keyboard was pressed
OnSelectBoard == \E query \in BotMsgs, boardId \in Boards, e \in EnvTrello :
  Deliver("select_board", query, FALSE, selectBoard(St, query, boardId, e))

OnSelectList == \E query \in BotMsgs, listId \in Lists, e \in EnvTrello :
  Deliver("select_list", query, FALSE, selectList(St, query, listId, e))

OnIdeaList == \E query \in BotMsgs, listId \in Lists, e \in EnvTrello :
  Deliver("idea_list", query, FALSE, handleIdeaListSelection(St, query, listId, e))

OnViewListCards == \E query \in BotMsgs, listId \in Lists, e \in EnvRead :
  Deliver("view_list_cards", query, FALSE, handleViewListCards(St, query, listId, e))

OnCompleteCard == \E query \in BotMsgs, cardId \in Cards, listId \in Lists, e \in EnvCard :
  Deliver("complete_card", query, FALSE, handleCompleteCard(St, query, cardId, listId, e))

OnOtherCallback == \E query \in BotMsgs, e \in EnvSend :
  Deliver("callback", query, FALSE, Res(St, <<"answer">>, ~e.sendOk, "none", ""))

OnCancel == \E msg \in BotMsgs, e \in EnvSend :
  Deliver("cancel", msg, FALSE, handleCancel(St, msg, e))

OnMessage == \E msg \in BotMsgs, text \in Texts, e \in EnvRead \cup EnvValidate :
  Deliver("message", msg, FALSE, handleMentions(St, msg, text, e))

(***************************************************************************)
(* Boot: the stores hold what earlier runs of the bot left in data/        *)
(***************************************************************************)
GrantedAuth == [users |-> <<"1", "2">>, groups |-> <<"-1">>, pendingRequests |-> <<>>]

EarlierTokens ==
  put(EmptyMap, "-1", [token |-> "t1", apiKey |-> "k1", workspace |-> fullName("k1")])

EarlierRun ==
  /\ tokensFile = saveTokens(EarlierTokens)
  /\ tokens = loadTokens(tokensFile)
  /\ credOf = put(EmptyMap, "-1", [apiKey |-> "k1", token |-> "t1"])
  /\ configFile = put(EmptyMap, "-1", [boardId |-> "b1", defaultListId |-> "l1"])
  /\ statsFile = incrementStats(EmptyMap, "-1", 1)
  /\ userSessions = EmptyMap /\ trelloServices = {}
  /\ out = NoOut /\ ev = NoEvent /\ nEvents = 0
  /\ ConnBoot /\ TextIdle /\ NoTasks

Init ==
  /\ authFile \in {FreshAuth, GrantedAuth}
  /\ authorized = loadAuthorized(authFile)
  /\ ret = NoRet
  /\ FirstBoot \/ EarlierRun

Next ==
  \/ OnStart \/ OnStartComplete \/ OnTrellohelp
  \/ OnRequest \/ OnAuthorize \/ OnUnauthorize \/ OnRequests \/ OnAuthorized
  \/ OnSetworkspace \/ OnRemoveworkspace \/ OnWorkspace
  \/ OnIdea \/ OnTask \/ OnAddidea
  \/ OnBoards \/ OnLists \/ OnView
  \/ OnAssign \/ OnLabel \/ OnSearch
  \/ OnSettings \/ OnStats \/ OnClearboard \/ OnStatus \/ OnNetwork
  \/ OnSelectBoard \/ OnSelectList \/ OnIdeaList \/ OnViewListCards
  \/ OnCompleteCard \/ OnOtherCallback
  \/ OnCancel \/ OnMessage

Spec == Init /\ [][Next]_vars

(***************************************************************************)
(* Session flows: the commands, messages and callbacks that create,        *)
(* advance and end sessions or change a chat's credentials, followed over  *)
(* longer runs in one group chat and one private chat                      *)
(***************************************************************************)
MaxFlowEvents == 4    \* events of a session-flow run

\* the chats of a session flow: a group, where the admin gives the commands and
\* presses the buttons, and the private chat of an authorized user
FlowMsgs == {GroupMsg(1, g, "group") : g \in GroupIds} \cup {PrivateMsg(2)}

\* in the group everybody writes, and the admin also writes to the bot in
\* private
FlowWriters ==
  FlowMsgs \cup {GroupMsg(u, g, "group") : u \in Senders, g \in GroupIds} \cup {PrivateMsg(1)}

\* what a session-advancing event meets outside: everything working, or one
\* thing failing
EnvFlow ==
  {Env(TRUE, t, TRUE) : t \in TrelloOutcomes} \cup {Env(FALSE, "ok", TRUE), Env(TRUE, "ok", FALSE)}

\* the texts of a session flow
FlowTexts == {t \in Texts : ~t.mention \/ t.lines[1].label = "idea"}

Flow(kind, msg, text, data, e, gated, r) ==
  /\ nEvents < MaxFlowEvents
  /\ Apply(kind, msg, gated, r)
  /\ ev' = [key |-> sessionKey(msg), chatId |-> chatIdOf(msg), text |-> text, data |-> data,
            step |-> IF has(userSessions, sessionKey(msg))
                     THEN userSessions[sessionKey(msg)].step ELSE "none",
            e |-> IF has(userSessions, sessionKey(msg)) THEN e ELSE NoEvent.e]

FlowSetworkspace == \E msg \in FlowMsgs, e \in EnvSend :
  Flow("setworkspace", msg, NoIdea, "", NoEvent.e, TRUE, withAuth(St, msg, e, handleSetWorkspace(checked(St), msg, e)))

FlowRemoveworkspace == \E msg \in FlowMsgs, e \in EnvSend :
  Flow("removeworkspace", msg, NoIdea, "", NoEvent.e, TRUE, withAuth(St, msg, e, handleRemoveWorkspace(checked(St), msg, e)))

FlowAddidea == \E msg \in FlowMsgs, e \in EnvSend :
  Flow("addidea", msg, NoIdea, "", NoEvent.e, TRUE, withAuth(St, msg, e, handleInteractiveIdea(checked(St), msg, e)))

FlowBoards == \E msg \in FlowMsgs, e \in EnvFlow \cap EnvRead :
  Flow("boards", msg, NoIdea, "", NoEvent.e, TRUE, withAuth(St, msg, e, handleListBoards(checked(St), msg, e)))

FlowSelectBoard == \E query \in FlowMsgs, boardId \in Boards, e \in EnvFlow \cap EnvRead :
  Flow("select_board", query, NoIdea, boardId, NoEvent.e, FALSE, selectBoard(St, query, boardId, e))

FlowIdeaList == \E query \in FlowMsgs, listId \in Lists, e \in EnvFlow :
  Flow("idea_list", query, NoIdea, listId, e, FALSE, handleIdeaListSelection(St, query, listId, e))

FlowCancel == \E msg \in FlowMsgs, e \in EnvSend :
  Flow("cancel", msg, NoIdea, "", NoEvent.e, FALSE, handleCancel(St, msg, e))

FlowMessage == \E msg \in FlowWriters, text \in FlowTexts, e \in EnvFlow \cap (EnvRead \cup EnvValidate) :
  Flow("message", msg, text, "", e, FALSE, handleMentions(St, msg, text, e))

InitFlow ==
  /\ authFile = GrantedAuth
  /\ authorized = loadAuthorized(authFile)
  /\ ret = NoRet
  /\ FirstBoot \/ EarlierRun

NextFlow ==
  \/ FlowSetworkspace \/ FlowRemoveworkspace \/ FlowAddidea \/ FlowBoards
  \/ FlowSelectBoard \/ FlowIdeaList \/ FlowCancel \/ FlowMessage

SpecFlow == InitFlow /\ [][NextFlow]_vars

(***************************************************************************)
(* The connection supervisor (connection-manager.js), the polling-error    *)
(* handler and start/stop of the bot (bot.js), the signal handlers         *)
(* (index.js).  A handler runs as one step; the timers it arms are counted *)
(* in pending and fire as steps of their own.                              *)
(***************************************************************************)
maxReconnectAttempts == 10
maxRetries == 5

MaxProbes == 12       \* failed liveness probes in a row that are followed
MaxTimers == 2        \* timers of one kind that are armed at the same time
MaxRetryCount == 7    \* transient polling errors that are counted

\* Math.min(delay * 1.5, ceiling) on eighths of a millisecond
backoff(delay, ceiling) ==
  IF (delay * 3) \div 2 <= ceiling THEN (delay * 3) \div 2 ELSE ceiling

\* what bot.stopPolling() followed by bot.startPolling() can do
PollingOutcomes == {"ok", "stopFail", "startFail"}

\* bot.isPolling() after stopPolling().then(() => startPolling())
restarted(polling, o) ==
  IF o = "ok" THEN TRUE ELSE IF o = "startFail" THEN FALSE ELSE polling

\* what bot.getMe() can do
ProbeOutcomes == {"ok", "empty", "fail"}

NoError == [code |-> "none", statusCode |-> 0]

\* the errors the 'polling_error' event carries
PollingErrors ==
  {[code |-> "ETELEGRAM", statusCode |-> 409], [code |-> "ETELEGRAM", statusCode |-> 401],
   [code |-> "EPARSE", statusCode |-> 0]}
  \cup {[code |-> c, statusCode |-> 0] : c \in {"EFATAL", "ECONNRESET", "ETIMEDOUT", "ENOTFOUND"}}

\* the fields the connection layers work on
Conn ==
  [isConnected |-> isConnected, reconnectAttempts |-> reconnectAttempts,
   reconnectDelay |-> reconnectDelay, healthCheckInterval |-> healthCheckInterval,
   retryCount |-> retryCount, retryDelay |-> retryDelay,
   isPolling |-> isPolling, pending |-> pending]

\* the outcome of a step: the fields, whether stopPolling/startPolling was
\* called, the timer that was armed and the delay it was armed with
Did(c, attempted, scheduled, after) ==
  [c |-> c, attempted |-> attempted, scheduled |-> scheduled, after |-> after]

getStatus(c) == [isConnected |-> c.isConnected, reconnectAttempts |-> c.reconnectAttempts]

handleDisconnectionDoubling(c, o) ==
  IF c.reconnectAttempts >= maxReconnectAttempts THEN Did(c, FALSE, "none", 0)
  ELSE IF o = "ok"
  THEN Did([c EXCEPT !.isPolling = TRUE, !.isConnected = TRUE,
                     !.reconnectAttempts = 0, !.reconnectDelay = ms(5000)],
           TRUE, "none", 0)
  ELSE LET d == IF c.reconnectDelay * 2 <= ms(60000) THEN c.reconnectDelay * 2 ELSE ms(60000) IN
       Did([c EXCEPT !.isPolling = restarted(@, o),
                     !.reconnectAttempts = @ + 1, !.reconnectDelay = d,
                     !.pending.reconnect = @ + 1],
           TRUE, "reconnect", d)

handleDisconnection(c, o) ==
  IF c.reconnectAttempts >= maxReconnectAttempts THEN Did(c, FALSE, "none", 0)
  ELSE IF o = "ok"
  THEN Did([c EXCEPT !.isPolling = TRUE, !.isConnected = TRUE,
                     !.reconnectAttempts = 0, !.reconnectDelay = ms(5000)],
           TRUE, "none", 0)
  ELSE LET d == backoff(c.reconnectDelay, ms(60000)) IN
       Did([c EXCEPT !.isPolling = restarted(@, o),
                     !.reconnectAttempts = @ + 1, !.reconnectDelay = d,
                     !.pending.reconnect = @ + 1],
           TRUE, "reconnect", d)

healthCheckKeepsDelay(c, probe, o) ==
  IF probe = "ok"
  THEN Did([c EXCEPT !.isConnected = TRUE, !.reconnectAttempts = 0], FALSE, "none", 0)
  ELSE IF probe = "empty" THEN Did(c, FALSE, "none", 0)
  ELSE handleDisconnection([c EXCEPT !.isConnected = FALSE], o)

\* the callback of the interval armed by startHealthCheck
healthCheck(c, probe, o) ==
  IF probe = "ok"
  THEN Did([c EXCEPT !.isConnected = TRUE, !.reconnectAttempts = 0,
                     !.reconnectDelay = ms(5000)], FALSE, "none", 0)
  ELSE IF probe = "empty" THEN Did(c, FALSE, "none", 0)
  ELSE handleDisconnection([c EXCEPT !.isConnected = FALSE], o)

startHealthCheck(c) == [c EXCEPT !.healthCheckInterval = TRUE]

isTransient(error) == error.code \in {"EFATAL", "ECONNRESET", "ETIMEDOUT", "ENOTFOUND"}

handlePollingErrorRetriesConflict(c, error) ==
  IF isTransient(error) \/ error.code = "ETELEGRAM"
  THEN IF c.retryCount + 1 <= maxRetries
       THEN Did([c EXCEPT !.retryCount = @ + 1, !.pending.retry = @ + 1,
                          !.retryDelay = backoff(@, ms(30000))],
                FALSE, "retry", c.retryDelay)
       ELSE Did([c EXCEPT !.retryCount = @ + 1, !.pending.final = @ + 1],
                FALSE, "final", ms(60000))
  ELSE Did(c, FALSE, "none", 0)

handlePollingError(c, error) ==
  IF error.code = "ETELEGRAM" /\ error.statusCode = 409 THEN Did(c, FALSE, "none", 0)
  ELSE IF isTransient(error)
  THEN IF c.retryCount + 1 <= maxRetries
       THEN Did([c EXCEPT !.retryCount = @ + 1, !.pending.retry = @ + 1,
                          !.retryDelay = backoff(@, ms(30000))],
                FALSE, "retry", c.retryDelay)
       ELSE Did([c EXCEPT !.retryCount = @ + 1, !.pending.final = @ + 1],
                FALSE, "final", ms(60000))
  ELSE Did(c, FALSE, "none", 0)

\* the callback of the timer armed for a retry
retryTimer(c, o) ==
  Did([c EXCEPT !.pending.retry = @ - 1, !.isPolling = restarted(@, o),
                !.retryCount = IF o = "ok" THEN 0 ELSE @],
      TRUE, "none", 0)

\* the callback of the timer armed after the retries ran out
finalTimer(c, o) ==
  Did([c EXCEPT !.pending.final = @ - 1, !.isPolling = restarted(@, o),
                !.retryCount = 0, !.retryDelay = ms(5000)],
      TRUE, "none", 0)

\* the callback of the timer armed by a failed reconnection
reconnectTimer(c, o) ==
  handleDisconnection([c EXCEPT !.pending.reconnect = @ - 1], o)

\* the callback of the interval armed by start()
pollingCheck(c, o) ==
  IF ~c.isPolling
  THEN Did([c EXCEPT !.isPolling = (o = "ok")], TRUE, "none", 0)
  ELSE Did(c, FALSE, "none", 0)

start(c) == [startHealthCheck(c) EXCEPT !.pending.check = TRUE]

\* ConnectionManager.stop()
stopHealthCheck(c) == [c EXCEPT !.healthCheckInterval = FALSE]

\* TrelloAssistantBot.stop()
stop(c, o) == [stopHealthCheck(c) EXCEPT !.isPolling = IF o = "ok" THEN FALSE ELSE @]

ApplyConn(kind, outcome, error, s) ==
  /\ isConnected' = s.c.isConnected
  /\ reconnectAttempts' = s.c.reconnectAttempts
  /\ reconnectDelay' = s.c.reconnectDelay
  /\ healthCheckInterval' = s.c.healthCheckInterval
  /\ retryCount' = s.c.retryCount
  /\ retryDelay' = s.c.retryDelay
  /\ isPolling' = s.c.isPolling
  /\ pending' = s.c.pending
  /\ last' = [kind |-> kind, outcome |-> outcome, error |-> error,
              attempted |-> s.attempted, scheduled |-> s.scheduled, after |-> s.after,
              status |-> IF kind = "status" THEN getStatus(s.c) ELSE NoStep.status]
  /\ UNCHANGED <<authVars, ret, tokens, tokensFile, configFile, statsFile, userSessions,
                 trelloServices, credOf, out, ev, nEvents, textVars, tasks>>

\* a step that arms a timer keeps the number of armed timers within MaxTimers
Armed(s) ==
  /\ s.c.pending.reconnect <= MaxTimers
  /\ s.c.pending.retry <= MaxTimers
  /\ s.c.pending.final <= MaxTimers

\* bot.start() of index.js
OnBotStart ==
  /\ ~exited /\ ~pending.check
  /\ ApplyConn("start", "none", NoError, Did(start(Conn), FALSE, "none", 0))
  /\ UNCHANGED <<exited, probes>>

OnHealthCheck ==
  /\ ~exited /\ healthCheckInterval
  /\ \E probe \in ProbeOutcomes : \E o \in PollingOutcomes :
       /\ probe = "fail" => probes < MaxProbes
       /\ probe # "fail" => o = "ok"
       /\ Armed(healthCheck(Conn, probe, o))
       /\ ApplyConn("healthCheck", probe, NoError, healthCheck(Conn, probe, o))
       /\ probes' = IF probe = "fail" THEN probes + 1 ELSE 0
  /\ UNCHANGED exited

OnReconnectTimer ==
  /\ ~exited /\ pending.reconnect > 0
  /\ \E o \in PollingOutcomes :
       /\ Armed(reconnectTimer(Conn, o))
       /\ ApplyConn("reconnectTimer", o, NoError, reconnectTimer(Conn, o))
  /\ UNCHANGED <<exited, probes>>

OnGetStatus ==
  /\ ~exited
  /\ ApplyConn("status", "none", NoError, Did(Conn, FALSE, "none", 0))
  /\ UNCHANGED <<exited, probes>>

OnPollingError ==
  /\ ~exited
  /\ \E error \in PollingErrors :
       /\ isTransient(error) => retryCount < MaxRetryCount
       /\ Armed(handlePollingError(Conn, error))
       /\ ApplyConn("polling_error", "none", error, handlePollingError(Conn, error))
  /\ UNCHANGED <<exited, probes>>

OnRetryTimer ==
  /\ ~exited /\ pending.retry > 0
  /\ \E o \in PollingOutcomes : ApplyConn("retryTimer", o, NoError, retryTimer(Conn, o))
  /\ UNCHANGED <<exited, probes>>

OnFinalTimer ==
  /\ ~exited /\ pending.final > 0
  /\ \E o \in PollingOutcomes : ApplyConn("finalTimer", o, NoError, finalTimer(Conn, o))
  /\ UNCHANGED <<exited, probes>>

OnPollingCheck ==
  /\ ~exited /\ pending.check
  /\ \E o \in {"ok", "startFail"} :
       ApplyConn("pollingCheck", o, NoError, pollingCheck(Conn, o))
  /\ UNCHANGED <<exited, probes>>

\* SIGINT or SIGTERM: bot.stop(), then process.exit(0)
OnSignal ==
  /\ ~exited
  /\ \E o \in {"ok", "stopFail"} :
       ApplyConn("signal", o, NoError, Did(stop(Conn, o), FALSE, "none", 0))
  /\ exited' = TRUE
  /\ UNCHANGED probes

InitConn ==
  /\ authFile = GrantedAuth
  /\ authorized = loadAuthorized(authFile)
  /\ ret = NoRet
  /\ FirstBoot

\* the supervisor: liveness probes and reconnections
NextSupervisor ==
  \/ OnBotStart \/ OnHealthCheck \/ OnReconnectTimer \/ OnGetStatus \/ OnSignal

SpecSupervisor == InitConn /\ [][NextSupervisor]_vars

\* the polling-error handler, its timers and the polling check of start()
NextPolling ==
  \/ OnBotStart \/ OnPollingError \/ OnRetryTimer \/ OnFinalTimer \/ OnPollingCheck
  \/ OnSignal

SpecPolling == InitConn /\ [][NextPolling]_vars

(***************************************************************************)
(* Structuring of idea text (bot.js, extractUrlsFromText).  A text is a    *)
(* sequence of tokens: a run of characters that are not white space, one   *)
(* blank, or one line feed.  A URL token is never followed by another      *)
(* token that is not white space.                                          *)
(***************************************************************************)
MaxLines == 3         \* lines of a text handed to extractUrlsFromText

MilkUrl == "https://example.com/milk"
ShortUrl == "https://x.co"

\* \s
IsSpace(t) == t \in {" ", "\n"}

\* urlRegex matches the token
IsUrl(t) == t \in {MilkUrl, ShortUrl}

\* the characters of /^[-*...]\s+/ and the numbers of /^\d+\.\s+/
Bullets == {"-", "*"}
Numbers == {"1."}

RECURSIVE trimStart(_)
trimStart(s) == IF s # <<>> /\ IsSpace(Head(s)) THEN trimStart(Tail(s)) ELSE s

RECURSIVE trimEnd(_)
trimEnd(s) ==
  IF s # <<>> /\ IsSpace(s[Len(s)]) THEN trimEnd(SubSeq(s, 1, Len(s) - 1)) ELSE s

trim(s) == trimEnd(trimStart(s))

\* text.split('\n')
RECURSIVE split(_)
split(s) ==
  IF indexOf(s, "\n") = -1 THEN <<s>>
  ELSE <<SubSeq(s, 1, indexOf(s, "\n"))>> \o split(SubSeq(s, indexOf(s, "\n") + 2, Len(s)))

\* items.join('\n')
RECURSIVE join(_)
join(items) ==
  IF items = <<>> THEN <<>>
  ELSE IF Len(items) = 1 THEN items[1]
  ELSE items[1] \o <<"\n">> \o join(Tail(items))

\* the items of a sequence of sequences, in order
RECURSIVE flat(_)
flat(ss) == IF ss = <<>> THEN <<>> ELSE Head(ss) \o flat(Tail(ss))

\* text.split('\n').map(line => line.trim()).filter(line => line)
nonEmptyLines(s) ==
  SelectSeq([i \in 1..Len(split(s)) |-> trim(split(s)[i])], LAMBDA l : l # <<>>)

\* s.match(urlRegex) || []
match(s) == SelectSeq(s, IsUrl)

\* s.replace(t, '')
replace(s, t) ==
  IF indexOf(s, t) = -1 THEN s ELSE splice1(s, indexOf(s, t))

\* found.forEach(url => { s = s.replace(url, '').trim(); })
RECURSIVE removeEach(_, _)
removeEach(s, found) ==
  IF found = <<>> THEN s ELSE removeEach(trim(replace(s, Head(found))), Tail(found))

\* s.match(/^[marks]\s+/)
startsWithMarker(s, marks) == Len(s) >= 2 /\ s[1] \in marks /\ IsSpace(s[2])

\* s.replace(/^[marks]\s+/, '')
dropMarker(s, marks) == IF startsWithMarker(s, marks) THEN trimStart(Tail(s)) ELSE s

\* s.replace(/\s+/g, ' ')
RECURSIVE collapse(_)
collapse(s) ==
  IF s = <<>> THEN <<>>
  ELSE IF IsSpace(Head(s)) THEN <<" ">> \o collapse(trimStart(s))
  ELSE <<Head(s)>> \o collapse(Tail(s))

\* what one of the later lines pushes to listItems: nothing or one item
listItem(line) ==
  LET l == removeEach(line, match(line))
      cleanItem == trim(dropMarker(dropMarker(l, Bullets), Numbers))
  IN IF startsWithMarker(l, Bullets) \/ startsWithMarker(l, Numbers)
     THEN IF cleanItem # <<>> THEN << <<"-", " ">> \o cleanItem >> ELSE <<>>
     ELSE IF l # <<>> THEN << <<"-", " ">> \o l >> ELSE <<>>

describeLinksFirst(listItems, urls) ==
  LET details == IF listItems # <<>> THEN <<"Details:", "\n">> \o join(listItems) ELSE <<>>
      links == <<"Links:", "\n">> \o join([i \in 1..Len(urls) |-> <<"-", " ", urls[i]>>])
  IN IF urls = <<>> THEN details
     ELSE IF details # <<>> THEN links \o <<"\n", "\n">> \o details
     ELSE links

\* the description: the Details part, then the Links part
describe(listItems, urls) ==
  LET details == IF listItems # <<>> THEN <<"Details:", "\n">> \o join(listItems) ELSE <<>>
      links == <<"Links:", "\n">> \o join([i \in 1..Len(urls) |-> <<"-", " ", urls[i]>>])
  IN IF urls = <<>> THEN details
     ELSE IF details # <<>> THEN details \o <<"\n", "\n">> \o links
     ELSE links

extractUrlsFromText(s) ==
  LET lines == nonEmptyLines(s)
      first == IF Len(lines) > 1 THEN lines[1] ELSE s
      rest == IF Len(lines) > 1 THEN Tail(lines) ELSE <<>>
      urls == match(first) \o flat([i \in 1..Len(rest) |-> match(rest[i])])
      listItems == flat([i \in 1..Len(rest) |-> listItem(rest[i])])
      mainTitle == trim(collapse(removeEach(first, match(first))))
  IN [cleanText |-> IF mainTitle # <<>> THEN mainTitle
                    ELSE trim(SelectSeq(s, LAMBDA t : ~IsUrl(t))),
      urls |-> urls, listItems |-> listItems, description |-> describe(listItems, urls)]

\* the lines texts are made of: no marker, a bullet or a number; then nothing,
\* a word, a URL, words, or words and a URL; a line that ends in a blank and a
\* line of one blank
Marks == {<<>>, <<"-", " ">>, <<"1.", " ">>}
Bodies ==
  {<<>>, <<"2%">>, <<MilkUrl>>, <<"Buy", " ", "milk">>, <<"Call", " ", "mom", " ", ShortUrl>>}
InputLines ==
  {m \o b : m \in Marks, b \in Bodies} \cup {<<"-", " ", "2%", " ">>, <<" ">>}

\* the texts of up to max lines
RawTexts(max) == UNION {{join(ls) : ls \in [1..n -> InputLines]} : n \in 1..max}

\* one call of extractUrlsFromText in a run
CallExtractUrlsFromText ==
  /\ rawText = <<>>
  /\ \E s \in RawTexts(MaxLines) \ {<<>>} :
       /\ rawText' = s
       /\ extracted' = extractUrlsFromText(s)
  /\ UNCHANGED <<authVars, ret, tokens, tokensFile, configFile, statsFile, userSessions,
                 trelloServices, credOf, out, ev, nEvents, connVars, tasks>>

NextText == CallExtractUrlsFromText

SpecText == InitConn /\ [][NextText]_vars







(***************************************************************************)
(* Properties of the AuthManager (checked under SpecAuth)                  *)
(***************************************************************************)
UserIdStrs == {ToString(u) : u \in UserIds}
GroupIdStrs == {ToString(g) : g \in GroupIds}
PairStrs == {<<ToString(u), ToString(c)>> : u \in UserIds, c \in UserIds \cup GroupIds}

HasPending(a, userId, chatId) ==
  \E i \in 1..Len(a.pendingRequests) :
     /\ a.pendingRequests[i].userId = userId
     /\ a.pendingRequests[i].chatId = chatId
     /\ a.pendingRequests[i].status = "pending"

\* C2: a message from an admin is authorized in a private chat and in every
\* group chat whatever users and groups contain; the admin stays in users;
\* unauthorizeUser(admin) returns false and leaves users, groups and
\* pendingRequests (in memory and on file) as they were.
C2_AdminAlwaysAuthorized ==
  \A k \in 1..Len(adminIds) :
    /\ \A msg \in Msgs : ToString(msg.from.id) = adminIds[k] => isAuthorized(authFile, msg)
    /\ includes(authorized.users, adminIds[k])
    /\ LET r == unauthorizeUser(authFile, adminIds[k])
       IN r.val = FALSE /\ r.mem = authorized /\ r.file = authFile
    /\ (ret.op = "unauthorizeUser" /\ ret.userId = adminIds[k]) => ret.val = "false"

C2_Witness ==
  /\ ret.op = "unauthorizeUser" /\ isAdmin(ret.userId) /\ ret.val = "false"
  /\ Len(authorized.groups) > 0
  /\ Len(authorized.pendingRequests) > 0

\* C3: for a non-admin sender, isAuthorized in a group or supergroup chat is
\* membership of the chat id in groups, and in a private chat membership of
\* the sender id in users; the other list plays no part.
C3_GroupByChatPrivateBySender ==
  /\ \A msg \in Msgs : ~isAdmin(ToString(msg.from.id)) =>
        (isAuthorized(authFile, msg) <=>
           IF IsGroup(msg) THEN includes(authorized.groups, ToString(msg.chat.id))
           ELSE includes(authorized.users, ToString(msg.from.id)))
  /\ (ret.op = "isAuthorized" /\ ~isAdmin(ret.userId)) =>
        ret.val = BoolStr(IF ret.chatId \in GroupIdStrs
                          THEN includes(authorized.groups, ret.chatId)
                          ELSE includes(authorized.users, ret.userId))

C3_Witness ==
  /\ ret.op = "isAuthorized" /\ ~isAdmin(ret.userId)
  /\ ret.chatId \in GroupIdStrs
  /\ includes(authorized.users, ret.userId)
  /\ ~includes(authorized.groups, ret.chatId)
  /\ ret.val = "false"

\* C4: while a pending request of a (requester, chat) pair exists,
\* addAccessRequest for that pair returns null and the list keeps its
\* length; no pair ever has two pending requests.
C4_NoDuplicatePending ==
  /\ \A p \in PairStrs : HasPending(authorized, p[1], p[2]) =>
        LET r == addAccessRequest(authFile, p[1], p[2], "user")
        IN /\ r.val = NullRequest
           /\ Len(r.mem.pendingRequests) = Len(authorized.pendingRequests)
           /\ Len(r.file.pendingRequests) = Len(authFile.pendingRequests)
  /\ \A i, j \in 1..Len(authorized.pendingRequests) :
        (/\ authorized.pendingRequests[i].status = "pending"
         /\ authorized.pendingRequests[j].status = "pending"
         /\ authorized.pendingRequests[i].userId = authorized.pendingRequests[j].userId
         /\ authorized.pendingRequests[i].chatId = authorized.pendingRequests[j].chatId)
        => i = j

C4_Witness ==
  /\ ret.op = "addAccessRequest" /\ ret.val = "null"
  /\ HasPending(authorized, ret.userId, ret.chatId)

\* C5 (as claimed): addAccessRequest for a pair that has no request with
\* status pending appends a pending request and returns it, whatever became
\* of the pair's earlier requests.
C5_AddsWhenNonePending ==
  \A p \in PairStrs : ~HasPending(authorized, p[1], p[2]) =>
     LET r == addAccessRequest(authFile, p[1], p[2], "user")
     IN /\ r.val # NullRequest
        /\ r.val.status = "pending"
        /\ r.file.pendingRequests = Append(loadAuthorized(authFile).pendingRequests, r.val)

\* C6: a stored request whose status is approved or rejected keeps that
\* status; a status changes only from pending, to approved or rejected; no
\* stored request disappears.
StatusStable(old, new) ==
  /\ Len(new.pendingRequests) >= Len(old.pendingRequests)
  /\ \A i \in 1..Len(old.pendingRequests) :
        LET before == old.pendingRequests[i].status
            after == new.pendingRequests[i].status
        IN /\ before \in {"approved", "rejected"} => after = before
           /\ after # before => (before = "pending" /\ after \in {"approved", "rejected"})

C6_StatusTerminal == [][StatusStable(authorized, authorized') /\ StatusStable(authFile, authFile')]_vars

C6_Witness ==
  /\ ret.op = "approveRequest" /\ ret.val = "request"
  /\ authorized.pendingRequests[ret.index + 1].status = "rejected"
  /\ authFile.pendingRequests[ret.index + 1].status = "rejected"

\* C7: authorizing an identity already listed, or unauthorizing one not
\* listed, returns false and changes nothing; the same call made twice
\* returns true then false and leaves the state of the first call; no list
\* holds an identity twice.
Unchanged(r) == r.val = FALSE /\ r.mem = authorized /\ r.file = authFile

OnceThenNoop(r1, r2) == r1.val = TRUE /\ r2.val = FALSE /\ r2.mem = r1.mem /\ r2.file = r1.file

C7_AuthorizeIdempotent ==
  /\ \A u \in UserIdStrs :
        LET r1 == authorizeUser(authFile, u)
            q1 == unauthorizeUser(authFile, u)
        IN /\ IF includes(authorized.users, u) THEN Unchanged(r1)
              ELSE OnceThenNoop(r1, authorizeUser(r1.file, u))
           /\ IF ~includes(authorized.users, u) THEN Unchanged(q1)
              ELSE isAdmin(u) \/ OnceThenNoop(q1, unauthorizeUser(q1.file, u))
  /\ \A g \in GroupIdStrs :
        LET r1 == authorizeGroup(authFile, g)
            q1 == unauthorizeGroup(authFile, g)
        IN /\ IF includes(authorized.groups, g) THEN Unchanged(r1)
              ELSE OnceThenNoop(r1, authorizeGroup(r1.file, g))
           /\ IF ~includes(authorized.groups, g) THEN Unchanged(q1)
              ELSE OnceThenNoop(q1, unauthorizeGroup(q1.file, g))
  /\ NoDuplicates(authorized.users) /\ NoDuplicates(authorized.groups)
  /\ NoDuplicates(authFile.users) /\ NoDuplicates(authFile.groups)

C7_Witness ==
  /\ ret.op = "authorizeUser" /\ ret.val = "false" /\ ~isAdmin(ret.userId)
  /\ Len(authorized.users) > 1
  /\ Len(authorized.groups) > 0

(***************************************************************************)
(* Properties of the bot's event handling (specification Spec)             *)
(***************************************************************************)
CardActions == {"createCard", "archiveCard"}

\* C1: every card creation and every card archival the bot performs is
\* triggered by an event whose sender passed the authorization check at that
\* moment.
C1_OnlyAuthorizedTouchCards == out.card \in CardActions => out.authorized

AuthorizeCommands == {"authorize", "unauthorize"}

\* C8: authorized users and groups change only in an /authorize or
\* /unauthorize command sent by an admin; the same commands sent by anybody
\* else leave the whole authorization state as it was and send the admin-only
\* refusal, and no other command or callback adds or removes a user or group.
C8_OnlyAdminsChangeAuthorized ==
  [][ /\ ( \/ authorized'.users # authorized.users
           \/ authorized'.groups # authorized.groups
           \/ authFile'.users # authFile.users
           \/ authFile'.groups # authFile.groups )
         => (out'.kind \in AuthorizeCommands /\ out'.admin)
      /\ (nEvents' # nEvents /\ out'.kind \in AuthorizeCommands /\ ~out'.admin)
         => (UNCHANGED authVars /\ out'.sent = <<"adminOnly">>)
    ]_vars

\* a non-admin has just been refused /authorize, after an admin changed the lists
C8_Witness ==
  /\ out.kind = "authorize" /\ ~out.admin /\ out.sent = <<"adminOnly">>
  /\ authorized.users = <<"1", "2">> /\ authorized.groups = <<>>

\* C9: a command routed through withAuth whose sender is not authorized never
\* reaches its handler, changes no session, chat configuration, credential or
\* statistics, sends the unauthorized hint, and raises no exception.
C9_UnauthorizedRejectedQuietly ==
  [][ (nEvents' # nEvents /\ out'.gated /\ ~out'.authorized)
      => /\ ~out'.invoked
         /\ UNCHANGED <<userSessions, configFile, tokens, tokensFile, statsFile>>
         /\ out'.sent = <<"unauthorized">>
         /\ ~out'.threw
    ]_vars

DefaultPair == [apiKey |-> defaultApiKey, token |-> defaultToken]

\* the pair credential resolution hands out for the chat
resolve(file, chatId) ==
  LET tokenData == getToken(file, chatId).val
  IN [apiKey |-> tokenData.apiKey, token |-> tokenData.token]

expected(chatId) == IF has(credOf, chatId) THEN credOf[chatId] ELSE DefaultPair

\* C10: credential resolution returns the default pair for every chat without
\* a record, before any setup and after removal, and the chat's own stored
\* pair exactly when it has a record; the client an event built for a chat
\* was built from that pair.
C10_ResolveDefaultOrOwn ==
  /\ \A c \in ChatStrs :
       /\ resolve(tokensFile, c) = expected(c)
       /\ has(loadTokens(tokensFile), c) <=> has(credOf, c)
  /\ out.credChat # "" => serviceKey(expected(out.credChat)) \in trelloServices

\* the record of chat -1 left by an earlier run was removed, and a later
\* event in that chat resolved its credentials
C10_Witness ==
  /\ has(statsFile, "-1") /\ ~has(credOf, "-1")
  /\ out.credChat = "-1" /\ out.kind = "boards"
  /\ serviceKey(DefaultPair) \in trelloServices

(***************************************************************************)
(* Session flows (SpecFlow)                                                *)
(***************************************************************************)
\* the step delivered a plain message to a session of the given step
MessageStep(step) ==
  /\ nEvents' = nEvents + 1
  /\ out'.kind = "message"
  /\ ev'.step = step

\* the text carries both an API key and a token
parsed(text) == parseCredentials(text).apiKey # "" /\ parseCredentials(text).token # ""

\* C11: when the pair submitted to a workspace setup fails validation, the
\* credential store is left as it was (a record the chat already had keeps its
\* API key, token and workspace name, and resolution hands out what it did
\* before), and neither the client cache nor any chat's configuration is
\* cleared.
C11_FailedValidationKeepsStore ==
  [][ MessageStep("waiting_for_credentials") /\ parsed(ev'.text) /\ ~ev'.e.valid
      => /\ tokensFile' = tokensFile /\ tokens' = tokens /\ credOf' = credOf
         /\ resolve(tokensFile', ev'.chatId) = resolve(tokensFile, ev'.chatId)
         /\ trelloServices' = trelloServices
         /\ configFile' = configFile ]_vars

C11_Witness ==
  /\ out.kind = "message" /\ ev.step = "waiting_for_credentials"
  /\ parsed(ev.text) /\ ~ev.e.valid
  /\ out.sent = <<"invalidCredentials">>
  /\ has(tokensFile, ev.chatId) /\ resolve(tokensFile, ev.chatId) # parseCredentials(ev.text)
  /\ trelloServices # {}
  /\ has(configFile, ev.chatId)

\* the chats that completed a workspace setup and did not remove it since
Configured == DOMAIN credOf

\* C12: the credential records are independent per chat.  Every chat that
\* completed a setup has its own record and resolution hands out the pair that
\* chat stored, whatever the other chats stored; a setup in one chat leaves the
\* other chats' records as they were; and obtaining a client for a chat adds
\* the entry of that chat's pair to the client cache without evicting another
\* chat's entry, so two chats with different pairs end with two entries.
C12_RecordsIndependent ==
  /\ [](\A c \in Configured : has(tokensFile, c) /\ resolve(tokensFile, c) = credOf[c])
  /\ [][ /\ MessageStep("waiting_for_credentials")
            => \A c \in Configured \ {ev'.chatId} :
                 has(tokensFile', c) /\ resolve(tokensFile', c) = resolve(tokensFile, c)
         /\ nEvents' = nEvents + 1 /\ out'.kind = "boards" /\ out'.invoked
            => /\ serviceKey(resolve(tokensFile', out'.credChat)) \in trelloServices'
               /\ trelloServices \subseteq trelloServices' ]_vars

C12_Witness ==
  /\ Cardinality(Configured) = 2
  /\ \A a, b \in Configured : a # b => credOf[a] # credOf[b]
  /\ \A c \in Configured : serviceKey(resolve(tokensFile, c)) \in trelloServices
  /\ Cardinality(trelloServices) = 2

FlowChats == {chatIdOf(msg) : msg \in FlowMsgs}

\* the chat's record after the step is not the record before it
recordChanged(c) ==
  \/ has(tokensFile, c) # has(tokensFile', c)
  \/ getToken(tokensFile, c).val # getToken(tokensFile', c).val

\* the step completed a workspace setup or a removal in the chat
recordWritten(c) ==
  /\ nEvents' = nEvents + 1 /\ ev'.chatId = c
  /\ out'.sent \in {<<"workspaceConfigured">>, <<"workspaceRemoved">>}

\* C13: whenever a chat's credential record changes, by a workspace setup or
\* by a removal, the step is an event of that chat, and when its handler is
\* done the chat has no configuration left (board and default list are gone)
\* and the client cache is empty; the configuration of every other chat is
\* what it was.
C13_RecordChangeClearsConfigAndCache ==
  [][ \A c \in FlowChats :
        recordChanged(c) \/ recordWritten(c)
        => /\ ev'.chatId = c
           /\ ~has(configFile', c)
           /\ trelloServices' = {}
           /\ \A d \in FlowChats \ {c} :
                 /\ has(configFile', d) = has(configFile, d)
                 /\ getChatConfig(configFile', d) = getChatConfig(configFile, d) ]_vars

C13_Witness ==
  /\ out.kind = "removeworkspace" /\ out.sent = <<"workspaceRemoved">>
  /\ has(statsFile, ev.chatId)
  /\ ~has(configFile, ev.chatId) /\ ~has(tokensFile, ev.chatId)
  /\ trelloServices = {}
  /\ \E d \in FlowChats \ {ev.chatId} : getChatConfig(configFile, d).boardId # ""

\* the pair the sender wrote: in every text of the flows that carries a pair
\* the API key is on the first line and the token on the second
submitted(text) == [apiKey |-> text.lines[1].value, token |-> text.lines[2].value]

\* C14: a message to a workspace-setup session deletes the session exactly
\* when the text parsed into an API key and a token and the pair validated.
\* Then the chat's persisted record is the submitted pair and the session is
\* gone; on a parse failure or a validation failure the session is still
\* there, unchanged, in step waiting_for_credentials.
C14_SetupSessionEndsIffStored ==
  [][ MessageStep("waiting_for_credentials")
      => /\ has(userSessions, ev'.key)
         /\ IF parsed(ev'.text) /\ ev'.e.valid
            THEN /\ ~has(userSessions', ev'.key)
                 /\ has(tokensFile', ev'.chatId)
                 /\ resolve(tokensFile', ev'.chatId) = submitted(ev'.text)
            ELSE /\ has(userSessions', ev'.key)
                 /\ userSessions'[ev'.key] = userSessions[ev'.key]
                 /\ userSessions'[ev'.key].step = "waiting_for_credentials" ]_vars

\* a pair written without labels was stored for the private chat and ended its session
C14_Witness ==
  /\ out.kind = "message" /\ ev.step = "waiting_for_credentials"
  /\ out.sent = <<"workspaceConfigured">>
  /\ ~has(userSessions, ev.key)
  /\ resolve(tokensFile, ev.chatId) = [apiKey |-> "k1", token |-> "t1"]
  /\ ev.chatId = "2"

\* the session under the event's key holds the event's text as its idea and
\* waits for the list
advanced ==
  /\ has(userSessions', ev'.key)
  /\ userSessions'[ev'.key].type = "addidea"
  /\ userSessions'[ev'.key].step = "waiting_for_list"
  /\ userSessions'[ev'.key].idea = ev'.text
  /\ userSessions'[ev'.key].chatId = userSessions[ev'.key].chatId

\* C15: an idea session in step waiting_for_idea that receives a plain text
\* from its chat moves to step waiting_for_list and stays under the same key
\* with the text stored as its idea.
C15_IdeaTextAdvancesSession ==
  [][ MessageStep("waiting_for_idea") => advanced ]_vars

\* the chat has a board, its lists were fetched and are not empty, and the
\* list keyboard was sent
listsShown ==
  /\ getChatConfig(configFile, ev'.chatId).boardId # ""
  /\ ev'.e.trello \notin {"readFail", "empty"}
  /\ ev'.e.sendOk

\* C15 (amended): an idea session in step waiting_for_idea that receives a
\* plain text from its chat moves to step waiting_for_list under the same key
\* with the text stored as its idea when the chat's lists could be shown, and
\* is deleted otherwise; a /cancel that follows the move deletes the session.
C15_IdeaTextAdvancesWhenListsShown ==
  [][ /\ MessageStep("waiting_for_idea")
         => IF listsShown THEN advanced ELSE ~has(userSessions', ev'.key)
      /\ nEvents' = nEvents + 1 /\ out'.kind = "cancel" /\ ev'.step = "waiting_for_list"
         => ~has(userSessions', ev'.key) ]_vars

\* the admin started the session in the group and somebody else wrote the idea
C15_Witness ==
  /\ out.kind = "message" /\ ev.step = "waiting_for_idea"
  /\ ev.key = "group_-1" /\ has(userSessions, ev.key)
  /\ userSessions[ev.key].step = "waiting_for_list"
  /\ userSessions[ev.key].idea = ev.text
  /\ userSessions[ev.key].originalUserId = 2

\* the event found a session waiting for the list
ListStep == nEvents' = nEvents + 1 /\ ev'.step = "waiting_for_list"

\* the session the event found is still there as it was
sessionKept ==
  /\ has(userSessions', ev'.key)
  /\ userSessions'[ev'.key] = userSessions[ev'.key]

\* C16: in step waiting_for_list a plain text leaves the session unchanged
\* (same step, same idea) and creates no card, and the only events that
\* advance or end the session are the list-selection callback and /cancel.
C16_OnlyListSelectionAdvances ==
  [][ ListStep
      => /\ out'.kind = "message" => sessionKept /\ out'.card = "none"
         /\ ~sessionKept => out'.kind \in {"idea_list", "cancel"} ]_vars

\* C16 (amended): in step waiting_for_list a plain text leaves the session
\* unchanged (same step, same idea) and creates no card; the events that
\* advance or end the session are the list-selection callback, /cancel, and
\* the entry commands /addidea and /setworkspace, which put a new session in
\* its place.
C16_TextIgnoredWhileWaitingForList ==
  [][ ListStep
      => /\ out'.kind = "message"
            => sessionKept /\ out'.card = "none" /\ out'.sent = <<>> /\ statsFile' = statsFile
         /\ ~sessionKept => out'.kind \in {"idea_list", "cancel", "addidea", "setworkspace"} ]_vars

\* a second text arrived while the session waited for the list, and the first
\* one is still the idea
C16_Witness ==
  /\ out.kind = "message" /\ ev.step = "waiting_for_list"
  /\ has(userSessions, ev.key)
  /\ userSessions[ev.key].step = "waiting_for_list"
  /\ userSessions[ev.key].idea # ev.text /\ userSessions[ev.key].idea # NoIdea
  /\ out.card = "none"

\* the step delivered a list-selection callback
SelectionStep == nEvents' = nEvents + 1 /\ out'.kind = "idea_list"

\* the callback found a session that holds an idea
holdsIdea ==
  /\ has(userSessions, ev'.key)
  /\ userSessions[ev'.key].hasData
  /\ userSessions[ev'.key].idea # NoIdea

\* the chat has a board, the list named by the callback is on it and the
\* tracking service creates the card
listExists ==
  /\ getChatConfig(configFile, ev'.chatId).boardId # ""
  /\ ev'.e.trello = "ok"

\* C17: a list-selection callback for a session that holds an idea, naming a
\* list of the chat's board, creates one card on that list from the stored
\* idea text with the chat's client and deletes the session; a list-selection
\* callback that finds no session under its key reports that the session
\* expired, creates nothing and changes nothing.
C17_SelectionCreatesCardOnce ==
  [][ SelectionStep
      => /\ holdsIdea /\ listExists
            => /\ out'.card = "createCard"
               /\ out'.cardList = ev'.data
               /\ out'.cardText = userSessions[ev'.key].idea
               /\ out'.credChat = ev'.chatId
               /\ ~has(userSessions', ev'.key)
         /\ ~has(userSessions, ev'.key)
            => /\ out'.sent = <<"sessionExpired">>
               /\ out'.card = "none"
               /\ UNCHANGED <<userSessions, statsFile, configFile, tokensFile>> ]_vars

\* the stored idea became a card on the chosen list and the session is gone
C17_Witness ==
  /\ out.kind = "idea_list" /\ ev.step = "waiting_for_list"
  /\ out.sent = <<"ideaAdded">> /\ out.card = "createCard"
  /\ out.cardList = ev.data /\ ev.data \in Lists
  /\ out.cardText = Text(FALSE, <<Line("", "buy milk")>>)
  /\ ~has(userSessions, ev.key)

\* C18: the idea flow fails closed: when the list named by a list-selection
\* callback cannot be resolved on the chat's board, or the card creation
\* fails, the error is reported to the user and no session remains under the
\* key.
C18_FailedSelectionDeletesSession ==
  [][ SelectionStep /\ holdsIdea /\ ~listExists
      => /\ out'.sent = <<"failedToCreate">>
         /\ out'.card = "none"
         /\ ~has(userSessions', ev'.key) ]_vars

\* the step delivered /cancel to a chat that has a session
CancelStep == nEvents' = nEvents + 1 /\ out'.kind = "cancel" /\ ev'.step # "none"

\* the step delivered a text that does not mention the bot, or a list
\* selection, to a chat that has no session
NoSessionStep ==
  /\ nEvents' = nEvents + 1 /\ ev'.step = "none"
  /\ \/ out'.kind = "message" /\ ~ev'.text.mention
     \/ out'.kind = "idea_list"

\* C19: /cancel in a chat that has a session deletes the session and sends
\* the acknowledgement, whatever the session's kind and step, and itself
\* creates no card and stores no credential; once the session is gone, the
\* texts and list selections that would have advanced it create no card and
\* store no credential.
C19_CancelDeletesAnySession ==
  [][ /\ CancelStep
         => /\ ~has(userSessions', ev'.key)
            /\ out'.sent = <<"cancelled">>
            /\ out'.card = "none"
            /\ UNCHANGED <<tokensFile, tokens, credOf, statsFile>>
      /\ NoSessionStep
         => /\ out'.card = "none"
            /\ ~has(userSessions', ev'.key)
            /\ UNCHANGED <<tokensFile, credOf, statsFile>> ]_vars

\* a workspace setup was cancelled before any pair was stored for the chat
C19_Witness ==
  /\ out.kind = "cancel" /\ ev.step = "waiting_for_credentials"
  /\ out.sent = <<"cancelled">>
  /\ ~has(userSessions, ev.key)
  /\ ~has(tokensFile, ev.chatId)
  /\ out.card = "none"

\* the event found a session and handed it the input that advances it
AdvanceStep ==
  /\ nEvents' = nEvents + 1
  /\ \/ out'.kind = "message" /\ ev'.step \in {"waiting_for_idea", "waiting_for_credentials"}
     \/ out'.kind = "idea_list" /\ ev'.step = "waiting_for_list"

\* a call the handler awaited was rejected: the chat transport refused the
\* bot's message, or the tracking service failed while the lists were read
\* for the idea, or it failed or did not have the list at the selection
\* (validateToken catches its own errors and only answers invalid)
raised ==
  \/ ~ev'.e.sendOk
  \/ ev'.step = "waiting_for_idea" /\ ev'.e.trello = "readFail"
  \/ ev'.step = "waiting_for_list" /\ ~listExists

\* C20: no session survives an error raised while it is being advanced: when
\* a call fails in an idea step, in the list selection or in the workspace
\* setup, the session is absent from the session map once the handler of the
\* event is done.
C20_NoSessionSurvivesError ==
  [][ AdvanceStep /\ raised => ~has(userSessions', ev'.key) ]_vars

\* the key of a chat: the group identity for a group, and in a private chat
\* the sender, whose id is the id of the chat
keyOfChat(chatId) == IF chatId \in GroupIdStrs THEN "group_" \o chatId ELSE chatId

\* C21: sessions are scoped to their chat.  An event of a chat works under
\* the key of that chat (the group for a group chat, the sender for a private
\* chat), whoever of the group sent it, and the sessions under all other keys
\* are the same before and after: no key appears, disappears or changes but
\* the event's own.
C21_SessionsScopedToChat ==
  [][ nEvents' = nEvents + 1
      => /\ ev'.key = keyOfChat(ev'.chatId)
         /\ \A k \in (DOMAIN userSessions \cup DOMAIN userSessions') \ {ev'.key} :
              /\ has(userSessions, k) /\ has(userSessions', k)
              /\ userSessions'[k] = userSessions[k] ]_vars

\* a member wrote the group's idea while the workspace setup of the same
\* member's private chat stayed as it was
C21_Witness ==
  /\ out.kind = "message" /\ ev.key = "group_-1" /\ ev.step = "waiting_for_idea"
  /\ has(userSessions, "group_-1") /\ userSessions["group_-1"].step = "waiting_for_list"
  /\ userSessions["group_-1"].originalUserId = 2
  /\ has(userSessions, "2") /\ userSessions["2"] = WorkspaceSession("2")

(***************************************************************************)
(* Isolation of events (Spec)                                              *)
(***************************************************************************)
\* C24: whatever is raised while an event is handled (command, callback or
\* plain message) is caught by the callback registered for the event: the
\* promise of no callback rejects.
C24_EveryEventIsolated == [][ nEvents' # nEvents => ~out'.threw ]_vars

(***************************************************************************)
(* Connection layers (SpecSupervisor, SpecPolling)                         *)
(***************************************************************************)
\* a step of the supervisor: a liveness probe or a timer of a failed reconnection
SupervisorStep == last'.kind \in {"healthCheck", "reconnectTimer"}

\* C22: once more liveness probes have failed in a row than
\* maxReconnectAttempts, the supervisor neither calls stopPolling/startPolling
\* nor arms a timer for it, and getStatus reports isConnected false together
\* with the attempt counter.
C22_NoReconnectAfterMaxProbeFailures ==
  /\ [](probes > maxReconnectAttempts
          => getStatus(Conn) = [isConnected |-> FALSE, reconnectAttempts |-> reconnectAttempts])
  /\ [][ (probes > maxReconnectAttempts /\ SupervisorStep)
          => (~last'.attempted /\ last'.scheduled = "none") ]_vars

\* a timer callback ran: an interval tick or a timeout
TimerStep ==
  last'.kind \in {"healthCheck", "reconnectTimer", "retryTimer", "finalTimer", "pollingCheck"}

\* C23: after the shutdown of a signal handler (bot.stop()) the probe
\* interval, every armed retry timer of both layers and the polling check of
\* start() are cancelled, and no timer callback runs afterwards.
C23_ShutdownCancelsTimers ==
  /\ [](exited => (~healthCheckInterval /\ pending = NoTimers))
  /\ [][ exited => ~TimerStep ]_vars

\* the liveness probe ran with the given outcome of bot.getMe()
ProbeStep(probe) == last'.kind = "healthCheck" /\ last'.outcome = probe

\* C27: a liveness probe that succeeds sets isConnected, reconnectAttempts to
\* 0 and reconnectDelay to 5000 ms, whatever they were; a probe that fails
\* clears isConnected and runs handleDisconnection, which reconnects unless
\* the attempts are used up and sets isConnected again only when it succeeds.
C27_ProbeOutcome ==
  [][ /\ ProbeStep("ok")
          => (isConnected' /\ reconnectAttempts' = 0 /\ reconnectDelay' = ms(5000))
      /\ ProbeStep("fail")
          => /\ last'.attempted <=> (reconnectAttempts < maxReconnectAttempts)
             /\ isConnected' <=> (last'.attempted /\ last'.scheduled = "none")
             /\ ~last'.attempted
                  => UNCHANGED <<reconnectAttempts, reconnectDelay, isPolling, pending>>
    ]_vars

\* a probe failed after earlier reconnections had failed, and the reconnection failed again
C27_Witness ==
  /\ last.kind = "healthCheck" /\ last.outcome = "fail"
  /\ ~isConnected /\ last.attempted /\ last.scheduled = "reconnect"
  /\ reconnectAttempts = 3 /\ probes = 1

RECURSIVE pow(_, _)
pow(b, k) == IF k = 0 THEN 1 ELSE b * pow(b, k - 1)

\* d is min(5000 * 1.5^k, 60000) milliseconds
IsBackoff(d, k) ==
  IF 5 * pow(3, k) <= 60 * pow(2, k)
  THEN d * pow(2, k) = ms(5000) * pow(3, k)
  ELSE d = ms(60000)

\* handleDisconnection got to its reconnection, which then failed or succeeded
FailedAttempt == SupervisorStep /\ last'.attempted /\ last'.scheduled = "reconnect"
SucceededAttempt == SupervisorStep /\ last'.attempted /\ last'.scheduled = "none"

PollingErrorStep == last'.kind = "polling_error"

Conflict == [code |-> "ETELEGRAM", statusCode |-> 409]

\* C29: handling the polling error of a second instance (HTTP 409) arms no
\* timer and calls neither stopPolling nor startPolling, and leaves retryCount,
\* retryDelay and the state of polling as they were.
C29_ConflictNotRetried ==
  [][ (PollingErrorStep /\ last'.error = Conflict)
      => /\ last'.scheduled = "none" /\ ~last'.attempted
         /\ UNCHANGED <<retryCount, retryDelay, pending, isPolling, healthCheckInterval>>
    ]_vars

\* the conflict arrived between two retries of transient errors
C29_Witness ==
  /\ last.kind = "polling_error" /\ last.error = Conflict
  /\ retryCount = 2 /\ pending.retry = 1 /\ retryDelay = ms(11250) /\ pending.check

\* C30: a transient polling error arms a retry timer while the counter is
\* within maxRetries, with a delay that grows by 1.5 up to 30000 ms; once the
\* counter is beyond maxRetries one last recovery is armed, never a second
\* one while it is pending, and after the last recovery ran the handler arms
\* nothing more.
C30_TransientRetriesBounded ==
  /\ [](pending.final <= 1 /\ ms(5000) <= retryDelay /\ retryDelay <= ms(30000))
  /\ [][
       /\ (PollingErrorStep /\ isTransient(last'.error))
           => /\ retryCount' = retryCount + 1
              /\ (last'.scheduled = "retry") <=> (retryCount' <= maxRetries)
              /\ (last'.scheduled = "final") <=> (retryCount' = maxRetries + 1)
       /\ (PollingErrorStep /\ last.kind = "finalTimer") => last'.scheduled = "none"
     ]_vars

(***************************************************************************)
(* Structuring of idea text (SpecText)                                     *)
(***************************************************************************)
\* "Buy milk\n- 2% \n- https://example.com/milk"
BuyMilk ==
  <<"Buy", " ", "milk", "\n", "-", " ", "2%", " ", "\n", "-", " ", MilkUrl>>

\* the tokens of a line that are neither white space nor a URL, one blank between them
RECURSIVE spaced(_)
spaced(ws) ==
  IF Len(ws) <= 1 THEN ws ELSE <<Head(ws), " ">> \o spaced(Tail(ws))

wordsOf(s) == SelectSeq(s, LAMBDA t : ~IsSpace(t) /\ ~IsUrl(t))

\* C25: of a text of several lines the first line is the title, every later
\* line gives at most one detail bullet, without its list marker and without
\* its URLs, which go to the URL list; a line of a list marker and a URL gives
\* the URL and no bullet.  "Buy milk\n- 2% \n- https://example.com/milk"
\* gives the title "Buy milk", the one bullet "2%", the one URL and the
\* description "Details:\n- 2%\n\nLinks:\n- https://example.com/milk".
C25_StructuresMultiLineInput ==
  LET lines == nonEmptyLines(rawText)
      later(i) == lines[i + 1]
      markerAndUrl(i) == /\ startsWithMarker(later(i), Bullets \cup Numbers)
                         /\ wordsOf(Tail(later(i))) = <<>>
                         /\ match(later(i)) # <<>>
  IN (rawText # <<>> /\ Len(lines) > 1) =>
       /\ extracted.cleanText = spaced(wordsOf(lines[1]))
       /\ extracted.urls = match(rawText)
       /\ \A k \in 1..Len(extracted.listItems) : match(extracted.listItems[k]) = <<>>
       /\ Len(extracted.listItems)
            <= Cardinality({i \in 1..(Len(lines) - 1) : ~markerAndUrl(i)})
       /\ rawText = BuyMilk =>
            extracted = [cleanText |-> <<"Buy", " ", "milk">>,
                         urls |-> <<MilkUrl>>,
                         listItems |-> << <<"-", " ", "2%">> >>,
                         description |-> <<"Details:", "\n", "-", " ", "2%", "\n", "\n",
                                           "Links:", "\n", "-", " ", MilkUrl>>]

\* "Call mom https://x.co"
CallMom == <<"Call", " ", "mom", " ", ShortUrl>>

\* C26: the description has a Details block exactly when there is a detail
\* bullet and a Links block exactly when there is a URL; with both, Details
\* comes first, then one empty line, then Links with the URLs in the order
\* they have in the text; a text of one line has no Details block, and
\* "Call mom https://x.co" gives the title "Call mom" and the Links block alone.
C26_DescriptionBlocks ==
  LET d == extracted.description
      details == indexOf(d, "Details:")
      links == indexOf(d, "Links:")
  IN rawText # <<>> =>
       /\ (details # -1) <=> (extracted.listItems # <<>>)
       /\ (links # -1) <=> (extracted.urls # <<>>)
       /\ (details # -1 /\ links # -1) =>
            /\ details = 0
            /\ links >= 3 /\ d[links] = "\n" /\ d[links - 1] = "\n" /\ d[links - 2] # "\n"
       /\ (details = -1 /\ links # -1) => links = 0
       /\ links # -1 =>
            /\ match(SubSeq(d, links + 2, Len(d))) = match(rawText)
            /\ match(SubSeq(d, 1, links)) = <<>>
       /\ Len(nonEmptyLines(rawText)) <= 1 => details = -1
       /\ rawText = CallMom =>
            /\ extracted.cleanText = <<"Call", " ", "mom">>
            /\ extracted.urls = <<ShortUrl>>
            /\ d = <<"Links:", "\n", "-", " ", ShortUrl>>

\* a text of three lines with a bullet and two URLs was structured
C26_Witness ==
  /\ rawText = <<"Buy", " ", "milk", "\n", "-", " ", "Call", " ", "mom", " ", ShortUrl,
                 "\n", MilkUrl>>
  /\ extracted.listItems = << <<"-", " ", "Call", " ", "mom">> >>
  /\ extracted.description =
       <<"Details:", "\n", "-", " ", "Call", " ", "mom", "\n", "\n",
         "Links:", "\n", "-", " ", ShortUrl, "\n", "-", " ", MilkUrl>>

(***************************************************************************)
(* Local state after failures (Spec)                                       *)
(***************************************************************************)
\* C31: a select_board or select_list callback that ends with the failure
\* reply, as it does when the board or the list is not found, leaves the
\* stored chat configuration as it was.
C31_FailedSelectionKeepsConfig ==
  [][ (nEvents' # nEvents /\ out'.kind \in {"select_board", "select_list"}
         /\ out'.sent = <<"errorOccurred">>)
      => configFile' = configFile ]_vars

(***************************************************************************)
(* Approval and rejection of requests (SpecAuth)                           *)
(***************************************************************************)
\* C32: approveRequest(i) with a valid index leaves the requester authorized
\* (the chat among the groups for a group request, the user among the users
\* otherwise) and the stored request i approved; rejectRequest(i) leaves the
\* stored request i rejected and the lists of users and groups unchanged; an
\* index out of range returns null and changes nothing.
C32_ApproveRejectPersisted ==
  [][ LET i == ret'.index + 1
          before == loadAuthorized(authFile)
      IN /\ (ret'.op = "approveRequest" /\ validIndex(before, ret'.index))
             => /\ ret'.val = "request"
                /\ IF before.pendingRequests[i].type = "group"
                   THEN includes(authFile'.groups, before.pendingRequests[i].chatId)
                   ELSE includes(authFile'.users, before.pendingRequests[i].userId)
                /\ authFile'.pendingRequests[i].status = "approved"
         /\ (ret'.op = "rejectRequest" /\ validIndex(before, ret'.index))
             => /\ ret'.val = "request"
                /\ authFile'.pendingRequests[i].status = "rejected"
                /\ authFile'.users = before.users /\ authFile'.groups = before.groups
         /\ (ret'.op \in {"approveRequest", "rejectRequest"} /\ ~validIndex(before, ret'.index))
             => (ret'.val = "null" /\ authFile' = authFile)
    ]_vars

(***************************************************************************)
(* Store calls that overlap (SpecRace)                                     *)
(*                                                                         *)
(* A method of AuthManager or TokenManager runs synchronously up to its    *)
(* next await; fs.readFile and fs.writeFile complete while other calls     *)
(* run.  A call is a task: "loaded" once its readFile has the file's       *)
(* content, "writing" once writeFile was handed the stringified object,    *)
(* "written" when the write has landed, "done" when it has returned.       *)
(***************************************************************************)
MaxTasks == 3          \* calls begun in one run

RaceUsers == {ToString(u) : u \in 2..(MaxUser + 1)}

RaceChats == {"-1"} \cup {ToString(u) : u \in 2..MaxUser}

NoData == <<>>

Task(op, arg, pc, data, buf, val, landed) ==
  [op |-> op, arg |-> arg, pc |-> pc, data |-> data, buf |-> buf, val |-> val,
   landed |-> landed]

SetTask(t, task) == tasks' = [tasks EXCEPT ![t] = task]

\* position of the next write to land, over both files
NextLanding == 1 + Cardinality({t \in 1..Len(tasks) : tasks[t].landed > 0})

\* authorizeUser up to the readFile of loadAuthorized
BeginAuthorizeUser(userId) ==
  /\ Len(tasks) < MaxTasks
  /\ tasks' = Append(tasks, Task("authorizeUser", userId, "loaded", authFile, NoData, "pending", 0))
  /\ UNCHANGED <<authorized, authFile, ret, tokens, tokensFile, configFile, statsFile,
                 userSessions, trelloServices, credOf, out, ev, nEvents, connVars, textVars>>

\* from the parse of the data read to the writeFile of saveAuthorized
ResumeAuthorizeUserMerging(t) ==
  LET r == authorizeUser(authFile, tasks[t].arg)
  IN /\ tasks[t].op = "authorizeUser" /\ tasks[t].pc = "loaded"
     /\ authorized' = r.mem
     /\ SetTask(t, IF r.val THEN [tasks[t] EXCEPT !.pc = "writing", !.buf = r.file]
                   ELSE [tasks[t] EXCEPT !.pc = "done", !.val = "false"])
     /\ UNCHANGED <<authFile, ret, tokens, tokensFile, configFile, statsFile,
                    userSessions, trelloServices, credOf, out, ev, nEvents, connVars, textVars>>

ResumeAuthorizeUser(t) ==
  LET r == authorizeUser(tasks[t].data, tasks[t].arg)
  IN /\ tasks[t].op = "authorizeUser" /\ tasks[t].pc = "loaded"
     /\ authorized' = r.mem
     /\ SetTask(t, IF r.val THEN [tasks[t] EXCEPT !.pc = "writing", !.buf = r.file]
                   ELSE [tasks[t] EXCEPT !.pc = "done", !.val = "false"])
     /\ UNCHANGED <<authFile, ret, tokens, tokensFile, configFile, statsFile,
                    userSessions, trelloServices, credOf, out, ev, nEvents, connVars, textVars>>

\* the write lands and authorizeUser returns true
LandAuthorizeUser(t) ==
  /\ tasks[t].op = "authorizeUser" /\ tasks[t].pc = "writing"
  /\ authFile' = tasks[t].buf
  /\ SetTask(t, [tasks[t] EXCEPT !.pc = "done", !.val = "true", !.landed = NextLanding])
  /\ UNCHANGED <<authorized, ret, tokens, tokensFile, configFile, statsFile,
                 userSessions, trelloServices, credOf, out, ev, nEvents, connVars, textVars>>

\* setToken up to the writeFile of saveTokens: the map in memory is not reloaded
BeginSetToken(chatId) ==
  LET r == setToken(tokens, chatId, "t" \o chatId, "", "")
  IN /\ Len(tasks) < MaxTasks
     /\ tokens' = r.mem
     /\ tasks' = Append(tasks, Task("setToken", chatId, "writing", NoData, r.file, "pending", 0))
     /\ UNCHANGED <<authorized, authFile, ret, tokensFile, configFile, statsFile,
                    userSessions, trelloServices, credOf, out, ev, nEvents, connVars, textVars>>

\* getToken up to the readFile of loadTokens
BeginGetToken(chatId) ==
  /\ Len(tasks) < MaxTasks
  /\ tasks' = Append(tasks, Task("getToken", chatId, "loaded", tokensFile, NoData, "pending", 0))
  /\ UNCHANGED <<authorized, authFile, ret, tokens, tokensFile, configFile, statsFile,
                 userSessions, trelloServices, credOf, out, ev, nEvents, connVars, textVars>>

\* this.tokens is rebuilt from the data read; a record found is stamped and saved
ResumeGetToken(t) ==
  LET r == getToken(tasks[t].data, tasks[t].arg)
  IN /\ tasks[t].op = "getToken" /\ tasks[t].pc = "loaded"
     /\ tokens' = r.mem
     /\ SetTask(t, IF has(r.mem, tasks[t].arg)
                   THEN [tasks[t] EXCEPT !.pc = "writing", !.buf = r.file]
                   ELSE [tasks[t] EXCEPT !.pc = "done", !.val = "default"])
     /\ UNCHANGED <<authorized, authFile, ret, tokensFile, configFile, statsFile,
                    userSessions, trelloServices, credOf, out, ev, nEvents, connVars, textVars>>

\* the write of saveTokens lands
LandTokens(t) ==
  /\ tasks[t].op \in {"setToken", "getToken"} /\ tasks[t].pc = "writing"
  /\ tokensFile' = tasks[t].buf
  /\ SetTask(t, [tasks[t] EXCEPT !.pc = "written", !.landed = NextLanding])
  /\ UNCHANGED <<authorized, authFile, ret, tokens, configFile, statsFile,
                 userSessions, trelloServices, credOf, out, ev, nEvents, connVars, textVars>>

\* after the await of saveTokens: setToken returns true, getToken reads
\* this.tokens[chatIdStr] again, which throws when the record is gone
ReturnTokens(t) ==
  /\ tasks[t].op \in {"setToken", "getToken"} /\ tasks[t].pc = "written"
  /\ SetTask(t, [tasks[t] EXCEPT !.pc = "done",
                                 !.val = IF tasks[t].op = "setToken" THEN "true"
                                         ELSE IF has(tokens, tasks[t].arg) THEN "custom"
                                         ELSE "threw"])
  /\ UNCHANGED <<authorized, authFile, ret, tokens, tokensFile, configFile, statsFile,
                 userSessions, trelloServices, credOf, out, ev, nEvents, connVars, textVars>>

InitRace ==
  /\ authFile = FreshAuth
  /\ authorized = loadAuthorized(authFile)
  /\ ret = NoRet
  /\ EarlierRun

NextRace ==
  \/ \E userId \in RaceUsers : BeginAuthorizeUser(userId)
  \/ \E t \in 1..Len(tasks) : ResumeAuthorizeUser(t)
  \/ \E t \in 1..Len(tasks) : LandAuthorizeUser(t)
  \/ \E chatId \in RaceChats : BeginSetToken(chatId)
  \/ \E chatId \in RaceChats : BeginGetToken(chatId)
  \/ \E t \in 1..Len(tasks) : ResumeGetToken(t)
  \/ \E t \in 1..Len(tasks) : LandTokens(t)
  \/ \E t \in 1..Len(tasks) : ReturnTokens(t)

SpecRace == InitRace /\ [][NextRace]_vars

(***************************************************************************)
(* Stores under overlapping calls (SpecRace)                               *)
(***************************************************************************)
Landed(ops) == {t \in 1..Len(tasks) : tasks[t].op \in ops /\ tasks[t].landed > 0}

LastLanded(ops) == CHOOSE t \in Landed(ops) : \A u \in Landed(ops) : tasks[u].landed <= tasks[t].landed

\* C33: a store is what the last writer wrote.  Each save writes the object
\* its own call had in memory (the data that call read plus its own change,
\* for setToken the map in memory plus the new record), and the file holds
\* the buffer of the write that landed last, whatever landed before it.
C33_LastWriterWins ==
  /\ \A t \in 1..Len(tasks) :
       /\ (tasks[t].op = "authorizeUser" /\ tasks[t].pc \in {"writing", "done"}
             /\ tasks[t].val # "false")
            => tasks[t].buf = [loadAuthorized(tasks[t].data) EXCEPT
                                 !.users = Append(@, tasks[t].arg)]
       /\ (tasks[t].op = "getToken" /\ tasks[t].pc \in {"writing", "written"})
            => tasks[t].buf = saveTokens(loadTokens(tasks[t].data))
       /\ (tasks[t].op = "setToken") => has(tasks[t].buf, tasks[t].arg)
  /\ Landed({"authorizeUser"}) # {}
       => authFile = tasks[LastLanded({"authorizeUser"})].buf
  /\ Landed({"setToken", "getToken"}) # {}
       => tokensFile = tasks[LastLanded({"setToken", "getToken"})].buf

\* the authorization store has lost a change: two authorizeUser calls for
\* different users returned true and one of the users is not in the file
C33_Witness ==
  \E t, u \in 1..Len(tasks) :
    /\ tasks[t].op = "authorizeUser" /\ tasks[u].op = "authorizeUser"
    /\ tasks[t].arg # tasks[u].arg
    /\ tasks[t].val = "true" /\ tasks[u].val = "true"
    /\ ~includes(authFile.users, tasks[t].arg)

\* the token store has lost a change: setToken for one chat returned true,
\* getToken for another chat returned, and the file lacks the new record
C33_TokenRecordLost ==
  \E t, u \in 1..Len(tasks) :
    /\ tasks[t].op = "setToken" /\ tasks[u].op = "getToken"
    /\ tasks[t].arg # tasks[u].arg
    /\ tasks[t].val = "true" /\ tasks[u].pc = "done"
    /\ ~has(tokensFile, tasks[t].arg)

(***************************************************************************)
(* Reconnect procedures that overlap (SpecOverlap)                         *)
(*                                                                         *)
(* A reconnect procedure is split at its awaits: "stopping" while          *)
(* bot.stopPolling() is pending, "starting" from the moment stopPolling    *)
(* resolved (for the supervisor: through the sleep of reconnectDelay) up   *)
(* to the end of bot.startPolling().  tasks is the bag of the procedures   *)
(* in flight, each with the layer that began it.                           *)
(***************************************************************************)
MaxInFlight == 2        \* reconnect procedures in flight at the same time
MaxPollingErrors == 2   \* transient polling errors counted while procedures overlap

Procedure(layer, pc) == [op |-> layer, pc |-> pc]

InFlight(p) == BagIn(p, tasks)

Begun(ts, p) == ts (+) SetToBag({p})

Finished(ts, p) == ts (-) SetToBag({p})

ApplyOverlap(c, ts) ==
  /\ isConnected' = c.isConnected
  /\ reconnectAttempts' = c.reconnectAttempts
  /\ reconnectDelay' = c.reconnectDelay
  /\ healthCheckInterval' = c.healthCheckInterval
  /\ retryCount' = c.retryCount
  /\ retryDelay' = c.retryDelay
  /\ isPolling' = c.isPolling
  /\ pending' = c.pending
  /\ tasks' = ts
  /\ UNCHANGED <<authVars, ret, tokens, tokensFile, configFile, statsFile, userSessions,
                 trelloServices, credOf, out, ev, nEvents, textVars, last, exited, probes>>

\* bot.start() of index.js
StartOverlap ==
  /\ ~pending.check
  /\ ApplyOverlap(start(Conn), tasks)

\* a 'polling_error' event
PollingErrorOverlap ==
  \E error \in PollingErrors :
    /\ isTransient(error) => retryCount < MaxPollingErrors
    /\ Armed(handlePollingError(Conn, error))
    /\ ApplyOverlap(handlePollingError(Conn, error).c, tasks)

\* handleDisconnection up to its first await: the guard, the increment and
\* the call of stopPolling
enterHandleDisconnectionLate(c, ts) ==
  IF c.reconnectAttempts > maxReconnectAttempts THEN [c |-> c, ts |-> ts]
  ELSE [c |-> [c EXCEPT !.reconnectAttempts = @ + 1],
        ts |-> Begun(ts, Procedure("supervisor", "stopping"))]

enterHandleDisconnection(c, ts) ==
  IF c.reconnectAttempts >= maxReconnectAttempts THEN [c |-> c, ts |-> ts]
  ELSE [c |-> [c EXCEPT !.reconnectAttempts = @ + 1],
        ts |-> Begun(ts, Procedure("supervisor", "stopping"))]

\* the probe of the interval succeeds
ProbeSucceeds ==
  /\ healthCheckInterval
  /\ ApplyOverlap(healthCheck(Conn, "ok", "ok").c, tasks)

\* the probe of the interval fails: isConnected = false, then handleDisconnection
ProbeFails ==
  /\ healthCheckInterval
  /\ BagCardinality(tasks) < MaxInFlight
  /\ LET r == enterHandleDisconnection([Conn EXCEPT !.isConnected = FALSE], tasks)
     IN ApplyOverlap(r.c, r.ts)

\* the timer armed by a failed reconnection fires: handleDisconnection
FireReconnectTimer ==
  /\ pending.reconnect > 0
  /\ BagCardinality(tasks) < MaxInFlight
  /\ LET r == enterHandleDisconnection([Conn EXCEPT !.pending.reconnect = @ - 1], tasks)
     IN ApplyOverlap(r.c, r.ts)

\* the timer of a retry fires: stopPolling is called
FireRetryTimerExclusive ==
  /\ pending.retry > 0
  /\ tasks = EmptyBag
  /\ ApplyOverlap([Conn EXCEPT !.pending.retry = @ - 1],
                  Begun(tasks, Procedure("retry", "stopping")))

FireRetryTimer ==
  /\ pending.retry > 0
  /\ BagCardinality(tasks) < MaxInFlight
  /\ ApplyOverlap([Conn EXCEPT !.pending.retry = @ - 1],
                  Begun(tasks, Procedure("retry", "stopping")))

\* the interval of start() finds the bot not polling: startPolling is called
FirePollingCheck ==
  /\ pending.check /\ ~isPolling
  /\ BagCardinality(tasks) < MaxInFlight
  /\ ApplyOverlap(Conn, Begun(tasks, Procedure("check", "starting")))

\* the catch of handleDisconnection
failedReconnection(c) ==
  [c EXCEPT !.reconnectDelay = backoff(@, ms(60000)), !.pending.reconnect = @ + 1]

\* stopPolling of a procedure of this layer settles
StopPollingSettles(layer) ==
  /\ InFlight(Procedure(layer, "stopping"))
  /\ \E o \in {"ok", "stopFail"} :
       LET ts == Finished(tasks, Procedure(layer, "stopping"))
       IN IF o = "ok"
          THEN ApplyOverlap([Conn EXCEPT !.isPolling = FALSE],
                            Begun(ts, Procedure(layer, "starting")))
          ELSE IF layer = "supervisor"
          THEN /\ pending.reconnect < MaxTimers
               /\ ApplyOverlap(failedReconnection(Conn), ts)
          ELSE ApplyOverlap(Conn, ts)

\* startPolling of a procedure of this layer settles
StartPollingSettles(layer) ==
  /\ InFlight(Procedure(layer, "starting"))
  /\ \E o \in {"ok", "startFail"} :
       LET ts == Finished(tasks, Procedure(layer, "starting"))
       IN IF o = "ok"
          THEN ApplyOverlap(
                 IF layer = "supervisor"
                 THEN [Conn EXCEPT !.isPolling = TRUE, !.isConnected = TRUE,
                                   !.reconnectAttempts = 0, !.reconnectDelay = ms(5000)]
                 ELSE IF layer = "retry"
                 THEN [Conn EXCEPT !.isPolling = TRUE, !.retryCount = 0]
                 ELSE [Conn EXCEPT !.isPolling = TRUE],
                 ts)
          ELSE IF layer = "supervisor"
          THEN /\ pending.reconnect < MaxTimers
               /\ ApplyOverlap(failedReconnection(Conn), ts)
          ELSE ApplyOverlap(Conn, ts)

Layers == {"supervisor", "retry", "check"}

NextOverlap ==
  \/ StartOverlap \/ PollingErrorOverlap
  \/ ProbeSucceeds \/ ProbeFails \/ FireReconnectTimer
  \/ FireRetryTimer \/ FirePollingCheck
  \/ \E layer \in Layers : StopPollingSettles(layer)
  \/ \E layer \in Layers : StartPollingSettles(layer)

SpecOverlap == InitConn /\ [][NextOverlap]_vars

(***************************************************************************)
(* Idea sessions with handlers that overlap (SpecSessions)                 *)
(*                                                                         *)
(* A handler runs synchronously up to its next await and resumes later;    *)
(* other events are handled in between.  tasks holds every handler begun:  *)
(* the event, where it stands, the session object it got from the map      *)
(* (sid, 0 for none) and what it has done.  A session object is told from  *)
(* a later one under the same key by id, the task that created it.         *)
(***************************************************************************)
MaxHandlers == 4       \* events handled in one run

SessionMsgs == {GroupMsg(2, g, "group") : g \in GroupIds}

IdeaTexts == {Text(FALSE, <<Line("", "buy milk")>>), Text(FALSE, <<Line("", "call mom")>>)}

Handler(op, msg, pc, sid, text) ==
  [op |-> op, msg |-> msg, pc |-> pc, sid |-> sid, text |-> text,
   took |-> FALSE, overlap |-> FALSE, card |-> FALSE, prompt |-> FALSE, stats |-> FALSE]

SessionObject(id, userId, chatId) == [id |-> id] @@ IdeaSession(userId, chatId)

ApplySessions(sessions, stats, ts) ==
  /\ userSessions' = sessions
  /\ statsFile' = stats
  /\ tasks' = ts
  /\ UNCHANGED <<authVars, ret, tokens, tokensFile, configFile, trelloServices, credOf,
                 out, ev, nEvents, connVars, textVars>>

\* /addidea up to the await of getChatConfig
BeginAddidea(msg) ==
  /\ Len(tasks) < MaxHandlers
  /\ ApplySessions(userSessions, statsFile,
                   Append(tasks, Handler("addidea", msg, "config", 0, NoIdea)))

\* handleInteractiveIdea from the configuration read to its end
ResumeAddidea(t) ==
  LET msg == tasks[t].msg
      config == getChatConfig(configFile, chatIdOf(msg))
  IN /\ tasks[t].op = "addidea" /\ tasks[t].pc = "config"
     /\ IF config.boardId = ""
        THEN ApplySessions(userSessions, statsFile, [tasks EXCEPT ![t].pc = "done"])
        ELSE ApplySessions(put(userSessions, sessionKey(msg),
                               SessionObject(t, msg.from.id, chatIdOf(msg))),
                           statsFile, [tasks EXCEPT ![t].pc = "done", ![t].sid = t])

\* a message handler of the same key is suspended
Suspended(key) ==
  \E u \in 1..Len(tasks) :
    tasks[u].op = "message" /\ sessionKey(tasks[u].msg) = key /\ tasks[u].pc = "lists"

\* handleMentions and handleSessionMessage up to the await of getChatConfig
BeginMessageAnyStep(msg, text) ==
  LET key == sessionKey(msg)
      h == [Handler("message", msg, "done", 0, text) EXCEPT !.overlap = Suspended(key)]
  IN /\ Len(tasks) < MaxHandlers
     /\ IF ~has(userSessions, key)
        THEN ApplySessions(userSessions, statsFile, Append(tasks, h))
        ELSE ApplySessions(
               put(userSessions, key,
                   [userSessions[key] EXCEPT !.idea = text, !.step = "waiting_for_list",
                                             !.originalUserId = msg.from.id]),
               statsFile,
               Append(tasks, [h EXCEPT !.pc = "lists", !.sid = userSessions[key].id,
                                       !.took = TRUE]))

BeginMessage(msg, text) ==
  LET key == sessionKey(msg)
      h == [Handler("message", msg, "done", 0, text) EXCEPT !.overlap = Suspended(key)]
  IN /\ Len(tasks) < MaxHandlers
     /\ IF ~has(userSessions, key)
        THEN ApplySessions(userSessions, statsFile, Append(tasks, h))
        ELSE IF userSessions[key].step # "waiting_for_idea"
        THEN ApplySessions(userSessions, statsFile,
                           Append(tasks, [h EXCEPT !.sid = userSessions[key].id]))
        ELSE ApplySessions(
               put(userSessions, key,
                   [userSessions[key] EXCEPT !.idea = text, !.step = "waiting_for_list",
                                             !.originalUserId = msg.from.id]),
               statsFile,
               Append(tasks, [h EXCEPT !.pc = "lists", !.sid = userSessions[key].id,
                                       !.took = TRUE]))

\* handleSessionMessage from the configuration read to its end
ResumeMessage(t, e) ==
  LET msg == tasks[t].msg
      key == sessionKey(msg)
      config == getChatConfig(configFile, chatIdOf(msg))
  IN /\ tasks[t].op = "message" /\ tasks[t].pc = "lists"
     /\ IF config.boardId # "" /\ e.trello = "ok" /\ e.sendOk
        THEN ApplySessions(userSessions, statsFile,
                           [tasks EXCEPT ![t].pc = "done", ![t].prompt = TRUE])
        ELSE ApplySessions(delete(userSessions, key), statsFile,
                           [tasks EXCEPT ![t].pc = "done"])

\* handleIdeaListSelection up to the await of getTrelloService
BeginIdeaList(query) ==
  LET key == sessionKey(query)
  IN /\ Len(tasks) < MaxHandlers
     /\ IF ~has(userSessions, key)
        THEN ApplySessions(userSessions, statsFile,
                           Append(tasks, Handler("idea_list", query, "done", 0, NoIdea)))
        ELSE IF userSessions[key].idea = NoIdea
        THEN ApplySessions(userSessions, statsFile,
                           Append(tasks, Handler("idea_list", query, "done",
                                                 userSessions[key].id, NoIdea)))
        ELSE ApplySessions(userSessions, statsFile,
                           Append(tasks, Handler("idea_list", query, "creating",
                                                 userSessions[key].id, userSessions[key].idea)))

\* from the lists read to the return of createCard and the delete that follows
ResumeIdeaList(t, e) ==
  LET query == tasks[t].msg
      config == getChatConfig(configFile, chatIdOf(query))
  IN /\ tasks[t].op = "idea_list" /\ tasks[t].pc = "creating"
     /\ IF config.boardId = "" \/ e.trello # "ok"
        THEN ApplySessions(userSessions, statsFile, [tasks EXCEPT ![t].pc = "done"])
        ELSE ApplySessions(delete(userSessions, sessionKey(query)), statsFile,
                           [tasks EXCEPT ![t].pc = "replying", ![t].card = TRUE])

\* the two replies, then incrementStats
FinishIdeaList(t, e) ==
  LET query == tasks[t].msg
  IN /\ tasks[t].op = "idea_list" /\ tasks[t].pc = "replying"
     /\ IF e.sendOk
        THEN ApplySessions(userSessions,
                           incrementStats(statsFile, chatIdOf(query), query.from.id),
                           [tasks EXCEPT ![t].pc = "done", ![t].stats = TRUE])
        ELSE ApplySessions(userSessions, statsFile, [tasks EXCEPT ![t].pc = "done"])

NextSessions ==
  \/ \E msg \in SessionMsgs : BeginAddidea(msg)
  \/ \E t \in 1..Len(tasks) : ResumeAddidea(t)
  \/ \E msg \in SessionMsgs, text \in IdeaTexts : BeginMessage(msg, text)
  \/ \E t \in 1..Len(tasks), e \in EnvRead : ResumeMessage(t, e)
  \/ \E query \in SessionMsgs : BeginIdeaList(query)
  \/ \E t \in 1..Len(tasks), e \in EnvCard : ResumeIdeaList(t, e)
  \/ \E t \in 1..Len(tasks), e \in EnvSend : FinishIdeaList(t, e)

SpecSessions == InitFlow /\ [][NextSessions]_vars

(***************************************************************************)
(* Recovery layers under overlap (SpecOverlap)                             *)
(***************************************************************************)
InFlightOf(layer) ==
  CopiesIn(Procedure(layer, "stopping"), tasks) + CopiesIn(Procedure(layer, "starting"), tasks)

\* C34: no layer waits for another.  While fewer than MaxInFlight procedures
\* are in flight, each trigger alone lets its layer begin a procedure: a
\* failed probe and a fired backoff timer (counter below the maximum), a
\* fired retry timer, the polling check that finds the bot not polling.
C34_LayersNotExclusive ==
  BagCardinality(tasks) < MaxInFlight =>
    /\ (healthCheckInterval /\ reconnectAttempts < maxReconnectAttempts)
         => ENABLED (ProbeFails /\ tasks' # tasks)
    /\ (pending.reconnect > 0 /\ reconnectAttempts < maxReconnectAttempts)
         => ENABLED (FireReconnectTimer /\ tasks' # tasks)
    /\ pending.retry > 0 => ENABLED FireRetryTimer
    /\ (pending.check /\ ~isPolling) => ENABLED FirePollingCheck

\* a procedure of the supervisor and one of the retry timer are in flight
C34_Witness == InFlightOf("supervisor") > 0 /\ InFlightOf("retry") > 0

\* two procedures of the supervisor are in flight
C34_TwoSupervisorProcedures == InFlightOf("supervisor") > 1

\* a start by the polling check while the supervisor is stopping
C34_CheckDuringSupervisor ==
  InFlight(Procedure("check", "starting")) /\ InFlight(Procedure("supervisor", "stopping"))

\* C35: reconnectAttempts is within 0..maxReconnectAttempts in every state,
\* and a step in which the supervisor begins a procedure (calls stopPolling)
\* starts from a counter below the maximum and adds one to it.
C35_AttemptsBounded ==
  /\ [](reconnectAttempts \in 0..maxReconnectAttempts)
  /\ [][ CopiesIn(Procedure("supervisor", "stopping"), tasks')
           > CopiesIn(Procedure("supervisor", "stopping"), tasks)
         => /\ reconnectAttempts < maxReconnectAttempts
            /\ reconnectAttempts' = reconnectAttempts + 1 ]_vars

\* the counter is at its maximum while two procedures of the supervisor overlap
C35_Witness == reconnectAttempts = maxReconnectAttempts /\ InFlightOf("supervisor") > 1


(***************************************************************************)
(* Idea sessions under overlapping handlers (SpecSessions)                 *)
(***************************************************************************)
HandlersOf(op, sid) == {t \in 1..Len(tasks) : tasks[t].op = op /\ tasks[t].sid = sid}

\* C36: a session yields at most one card and at most one increment of the
\* statistics, also when two list selections of its key are in flight.
C36_OneCardPerSession ==
  \A sid \in 1..Len(tasks) :
    /\ Cardinality({t \in HandlersOf("idea_list", sid) : tasks[t].card}) <= 1
    /\ Cardinality({t \in HandlersOf("idea_list", sid) : tasks[t].stats}) <= 1

\* C37: a handler removes from the map only the session it was working on.
C37_CleanupOnlyOwnSession ==
  [][ \A key \in DOMAIN userSessions :
        key \notin DOMAIN userSessions'
          => \E t \in 1..Len(tasks) :
               tasks'[t] # tasks[t] /\ tasks[t].sid = userSessions[key].id ]_vars

\* C38: of the messages that reach one session, one stores its text as the
\* idea and at most one list prompt is sent; the session keeps that text, and
\* a message that finds the session past waiting_for_idea does nothing.
C38_SecondMessageIgnored ==
  \A sid \in 1..Len(tasks) :
    LET takers == {t \in HandlersOf("message", sid) : tasks[t].took}
    IN /\ Cardinality(takers) <= 1
       /\ Cardinality({t \in HandlersOf("message", sid) : tasks[t].prompt}) <= 1
       /\ \A t \in HandlersOf("message", sid) :
            ~tasks[t].took => (tasks[t].pc = "done" /\ ~tasks[t].prompt)
       /\ \A key \in DOMAIN userSessions :
            userSessions[key].id = sid
              => IF takers = {} THEN userSessions[key].idea = NoIdea
                 ELSE \A t \in takers : userSessions[key].idea = tasks[t].text

\* a second message with another text reached the session while the handler
\* of the first was suspended, and the session holds the first text
C38_Witness ==
  \E t, u \in 1..Len(tasks) :
    /\ t < u /\ tasks[t].op = "message" /\ tasks[u].op = "message"
    /\ tasks[t].sid = tasks[u].sid /\ tasks[t].sid # 0
    /\ tasks[t].took /\ tasks[u].overlap /\ ~tasks[u].took
    /\ tasks[t].text # tasks[u].text
    /\ \E key \in DOMAIN userSessions :
         userSessions[key].id = tasks[t].sid /\ userSessions[key].idea = tasks[t].text


(***************************************************************************)
(* Retry state after a restart (SpecPolling)                               *)
(***************************************************************************)
\* C39: retryDelay is within [5000, 30000] ms in every state, and a timer of
\* the polling-error handler whose stopPolling/startPolling succeeded leaves
\* retryCount at 0 and retryDelay at 5000 ms.
C39_RestartResetsRetryState ==
  /\ [](retryDelay >= ms(5000) /\ retryDelay <= ms(30000))
  /\ [][ ((pending'.retry < pending.retry \/ pending'.final < pending.final)
            /\ last'.outcome = "ok")
         => (retryCount' = 0 /\ retryDelay' = ms(5000)) ]_vars


(***************************************************************************)
(* Whose credentials an event uses (Spec)                                  *)
(***************************************************************************)
\* C40: the Trello client an event works with is built from the credentials
\* of the chat the event came from, unless the sender is an administrator.
\* (A sender authorized for a chat is authorized through an event of that
\* chat, so for an event of another chat only the administrator remains.)
C40_CredentialsOfOwnChat ==
  [][ (nEvents' # nEvents /\ out'.credChat # "")
      => (out'.credChat = ev'.chatId \/ out'.admin) ]_vars

====
